---- MODULE Spec2Model ----
(***************************************************************************)
(* Trame.js event bus (the full engine, createEventBus in core.js):        *)
(* exact-name registry, wildcard pattern index with compiled matchers and  *)
(* match cache, priority ordering, the emit pipeline and onMany/onceMany.  *)
(* Strings are tuples of one-character strings: "u.l" is <<"u",".","l">>.  *)
(***************************************************************************)
EXTENDS Integers, Sequences, FiniteSets, TLC

VARIABLES
  events,          \* Map<string, Array<{handler, priority, id}>>
  wildcardEvents,  \* Map<pattern, wildcardData>, in insertion order: Seq of [pattern, oid]
  wdata,           \* the wildcardData objects that are still referenced: oid -> object
  regexCache,      \* Map<pattern, RegExp>: pattern -> compiled matcher
  matchCache,      \* Map<key, {matches, timestamp}>, in insertion order: Seq of [key, matches, timestamp]
  handlerId,       \* the closure-level id counter (let handlerId = 0)
  internalOptions, \* the options object: maxWildcardsPerPattern, defaultPriority, log options
  logHistory,      \* const logHistory = []: the log entries kept
  debugState,      \* breakpoints, lastEventTime, isMonitoring, monitorData (an object id)
  monitor,         \* the monitorData objects' eventCounts and timeline still referenced: id -> contents
  metrics,         \* emitCount, cacheHitCount, cacheMissCount
  now,             \* Date.now(), in milliseconds since the bus was created
  adapter,         \* a component's adapter: framework, its Set of unsubscribes, mounted
  groups,          \* the closures of the onMany calls: g -> {isUnsubscribed, ...}
  closures,        \* number of onceHandler closures created so far
  stack,           \* the emit calls in progress, innermost last
  calls,           \* observation: handler invocations of the current top-level emit
  fired,           \* observation: per once/onMany closure, user-handler deliveries (saturating)
  passes,          \* observation: emit passes begun by the current top-level emit
  sinceSweep,      \* observation: emit calls since the last cache sweep (saturating)
  logged,          \* observation: entries the log accepted during the last public call
  snapshot,        \* observation: the object the last stopMonitoring() returned, as returned
  result,          \* observation: outcome of the last completed public call
  probe            \* input and output of the matcher (pure-function specifications)

vars == <<events, wildcardEvents, wdata, regexCache, matchCache, handlerId,
          internalOptions, logHistory, debugState, monitor, metrics, now, adapter,
          groups, closures, stack, calls, fired, passes, sinceSweep, logged, snapshot,
          result, probe>>

(***************************************************************************)
(* Bounds of the model.                                                    *)
(***************************************************************************)
MaxHandlers == 2
MaxId == 2
MaxClosures == 1
MaxGroups == 1
MaxLen == 3
MaxEmits == 2
MaxLookups == 3
MaxTicks == 1
MaxFill == 1050

(***************************************************************************)
(* String helpers (String.prototype methods used by the engine).           *)
(***************************************************************************)
RECURSIVE CountFrom(_, _, _)
CountFrom(s, c, i) ==
  IF i > Len(s) THEN 0
  ELSE (IF s[i] = c THEN 1 ELSE 0) + CountFrom(s, c, i + 1)

\* event.includes('*')
hasWildcard(event) == \E i \in 1..Len(event) : event[i] = "*"

\* for (i...) if (pattern[i] === '*') count++
countWildcards(pattern) == CountFrom(pattern, "*", 1)

\* String.prototype.startsWith
StartsWith(s, p) == Len(p) <= Len(s) /\ SubSeq(s, 1, Len(p)) = p

\* index of the first occurrence of c in s, Len(s)+1 when there is none
RECURSIVE IndexOfFrom(_, _, _)
IndexOfFrom(s, c, i) ==
  IF i > Len(s) THEN Len(s) + 1
  ELSE IF s[i] = c THEN i ELSE IndexOfFrom(s, c, i + 1)

\* s.split(c)[0]
SplitFirst(s, c) == SubSeq(s, 1, IndexOfFrom(s, c, 1) - 1)

\* s.trim() is non-empty (white space is " ")
RECURSIVE AllBlankFrom(_, _)
AllBlankFrom(s, i) == IF i > Len(s) THEN TRUE ELSE s[i] = " " /\ AllBlankFrom(s, i + 1)

\* the test of the trimmed name left out
TrimUnchecked(s) == TRUE

TrimNonEmpty(s) == ~AllBlankFrom(s, 1)

(***************************************************************************)
(* Matcher compilation: wildcardToRegExp builds                            *)
(*   new RegExp('^' + escaped.replace(/\*/g, '([^.]+)') + '$')             *)
(* The compiled matcher is a token sequence: "lit" matches one given       *)
(* character, "any" is an unescaped regex dot, "grp" is the capture group  *)
(* ([^.]+).                                                                *)
(***************************************************************************)
\* the class [.+?^${}()|[\]\\] of the escaping replace
SpecialChars == {".", "+", "?", "^", "$", "{", "}", "(", ")", "|", "[", "]", "\\"}

Lit(c) == [t |-> "lit", c |-> c]
AnyTok == [t |-> "any", c |-> ""]
GrpTok == [t |-> "grp", c |-> ""]

\* The token one pattern character compiles to, with the special characters
\* left unescaped (a regex dot then matches any character).
PatternTokenNoEscape(c) ==
  IF c = "*" THEN GrpTok
  ELSE IF c = "." THEN AnyTok
  ELSE Lit(c)

\* The token one pattern character compiles to: a special character is
\* escaped and matches itself, * becomes the group, the rest is literal.
PatternToken(c) ==
  IF c \in SpecialChars THEN Lit(c)
  ELSE IF c = "*" THEN GrpTok
  ELSE Lit(c)

CompileRegExp(pattern) == [i \in 1..Len(pattern) |-> PatternToken(pattern[i])]

NoMatch == [ok |-> FALSE, caps |-> <<>>]

\* number of consecutive characters other than "." from position i
RECURSIVE RunLen(_, _)
RunLen(s, i) == IF i > Len(s) \/ s[i] = "." THEN 0 ELSE 1 + RunLen(s, i + 1)

(***************************************************************************)
(* RegExp.prototype.exec of an anchored matcher: backtracking, the group   *)
(* greedy (longest run first).  Returns whether the whole string matched   *)
(* and the captured substrings from left to right.                         *)
(***************************************************************************)
RECURSIVE RegexFrom(_, _, _, _), GroupTry(_, _, _, _, _)
RegexFrom(toks, s, ti, si) ==
  IF ti > Len(toks) THEN
    IF si > Len(s) THEN [ok |-> TRUE, caps |-> <<>>] ELSE NoMatch
  ELSE IF toks[ti].t = "lit" THEN
    IF si <= Len(s) /\ s[si] = toks[ti].c THEN RegexFrom(toks, s, ti + 1, si + 1)
    ELSE NoMatch
  ELSE IF toks[ti].t = "any" THEN
    IF si <= Len(s) THEN RegexFrom(toks, s, ti + 1, si + 1) ELSE NoMatch
  ELSE GroupTry(toks, s, ti, si, RunLen(s, si))

GroupTry(toks, s, ti, si, k) ==
  IF k < 1 THEN NoMatch
  ELSE LET r == RegexFrom(toks, s, ti + 1, si + k)
       IN IF r.ok THEN [ok |-> TRUE, caps |-> <<SubSeq(s, si, si + k - 1)>> \o r.caps]
          ELSE GroupTry(toks, s, ti, si, k - 1)

RegexExec(regex, s) == RegexFrom(regex, s, 1, 1)

\* regex.test(eventName)
RegexTest(regex, s) == RegexExec(regex, s).ok

(***************************************************************************)
(* Specification of the matcher as a pure function: the inputs are drawn   *)
(* in the initial state and one action applies the compiled matcher.       *)
(***************************************************************************)
ProbeChars == {"u", "l", ".", "*"}

RECURSIVE StringsUpTo(_, _)
StringsUpTo(chars, n) ==
  IF n = 0 THEN {<<>>}
  ELSE LET shorter == StringsUpTo(chars, n - 1)
       IN shorter \cup {Append(s, c) : s \in shorter, c \in chars}

ProbeNames == StringsUpTo(ProbeChars \ {"*"}, MaxLen + 1)
ProbePatterns == {p \in StringsUpTo(ProbeChars, MaxLen) : hasWildcard(p)}

NoProbe == [pattern |-> <<>>, name |-> <<>>, done |-> FALSE, ok |-> FALSE, caps |-> <<>>]

ApplyMatcher ==
  /\ ~probe.done
  /\ LET r == RegexExec(CompileRegExp(probe.pattern), probe.name)
     IN probe' = [probe EXCEPT !.done = TRUE, !.ok = r.ok, !.caps = r.caps]
  /\ UNCHANGED <<metrics, now, adapter, sinceSweep, logHistory, debugState, monitor, logged,
                 snapshot>>
  /\ UNCHANGED <<events, wildcardEvents, wdata, regexCache, matchCache, handlerId,
                 internalOptions, groups, closures, stack, calls, fired, passes, result>>


(***************************************************************************)
(* Values.                                                                 *)
(***************************************************************************)
\* `++handlerId` on the `let handlerId;` that shadows the counter inside on():
\* undefined + 1 is NaN.  NaN is unequal to every number, itself included.
NaN == -1

IdEq(a, b) == a # NaN /\ b # NaN /\ a = b

\* a value that is not a string (typeof event !== 'string')
NotAString == <<"<not a string>">>
IsString(x) == x # NotAString

\* Function values.  A user function is named by h; each once() call makes a
\* new onceHandler closure (serial n); each onMany name gets an adaptedHandler
\* closure of its group (n is the group, ev the name).
NoFn == [kind |-> "none", h |-> "", ev |-> <<>>, n |-> 0]
Fn(h) == [kind |-> "fn", h |-> h, ev |-> <<>>, n |-> 0]
OnceFn(h, ev, n) == [kind |-> "once", h |-> h, ev |-> ev, n |-> n]
ManyFn(g, ev) == [kind |-> "many", h |-> "", ev |-> ev, n |-> g]
IsFunction(f) == f.kind \in {"fn", "once", "many"}

\* The second argument of off / setPriority: undefined, a number or a function.
Undef == [type |-> "undefined", id |-> 0, fn |-> NoFn]
Num(n) == [type |-> "number", id |-> n, fn |-> NoFn]
Func(f) == [type |-> "function", id |-> 0, fn |-> f]

\* The third argument of on: absent, a plain number or an options object.
NoOptions == [form |-> "none", p |-> 0]
NumberOption(p) == [form |-> "number", p |-> p]
ObjectOption(p) == [form |-> "object", p |-> p]

\* PRIORITY.NORMAL, the default of internalOptions.defaultPriority
DefaultPriority == 50
\* the default of internalOptions.maxWildcardsPerPattern
MaxWildcardsPerPattern == 5

Min(a, b) == IF a < b THEN a ELSE b
Max(a, b) == IF a > b THEN a ELSE b

\* Math.min(100, Math.max(0, priority))
ClampPriority(p) == Min(100, Max(0, p))

\* on(): priority = typeof priority === 'number' ? clamp : internalOptions.defaultPriority
NormalizePriority(s, options) ==
  IF options.form = "none" THEN s.internalOptions.defaultPriority
  ELSE ClampPriority(options.p)

(***************************************************************************)
(* Array.prototype.sort((a, b) => b.priority - a.priority): a stable sort   *)
(* by priority, highest first.                                             *)
(***************************************************************************)
RECURSIVE InsertByPriority(_, _)
InsertByPriority(sorted, x) ==
  IF sorted = <<>> THEN <<x>>
  ELSE IF Head(sorted).priority >= x.priority
       THEN <<Head(sorted)>> \o InsertByPriority(Tail(sorted), x)
       ELSE <<x>> \o sorted

RECURSIVE SortFrom(_, _)
SortFrom(arr, acc) ==
  IF arr = <<>> THEN acc ELSE SortFrom(Tail(arr), InsertByPriority(acc, Head(arr)))

\* the sort left out: the array stays in insertion order
SortByPriorityNot(arr) == arr

SortByPriority(arr) == SortFrom(arr, <<>>)

\* Map.prototype.delete on a map modelled as a function
MapDelete(m, k) == [x \in DOMAIN m \ {k} |-> m[x]]
\* Map.prototype.set
MapSet(m, k, v) == [x \in DOMAIN m \cup {k} |-> IF x = k THEN v ELSE m[x]]
EmptyMap == [x \in {} |-> 0]


(***************************************************************************)
(* The engine state as one value, so that an operation can be applied at   *)
(* the top level and from inside a running handler alike.  A public call   *)
(* starts with nothing logged yet.                                         *)
(***************************************************************************)
Cur ==
  [events |-> events, wildcardEvents |-> wildcardEvents, wdata |-> wdata,
   regexCache |-> regexCache, matchCache |-> matchCache, handlerId |-> handlerId,
   internalOptions |-> internalOptions, metrics |-> metrics, now |-> now,
   adapter |-> adapter, groups |-> groups, closures |-> closures, stack |-> stack,
   calls |-> calls, fired |-> fired, passes |-> passes, sinceSweep |-> sinceSweep,
   result |-> result, logHistory |-> logHistory, debugState |-> debugState,
   monitor |-> monitor, logged |-> <<>>, snapshot |-> snapshot]

\* LOG_LEVELS[level] || 0
LOG_LEVELS(level) ==
  CASE level = "ERROR" -> 1
    [] level = "WARN" -> 2
    [] level = "INFO" -> 3
    [] level = "DEBUG" -> 4
    [] level = "TRACE" -> 5
    [] OTHER -> 0

\* maxLogEntries: options.maxLogEntries ?? 1000
DefaultMaxLogEntries == 1000

\* The options object of createEventBus(): each option at its default
\* (logHandler: whether a sink function is configured).
DefaultOptions ==
  [maxWildcardsPerPattern |-> MaxWildcardsPerPattern,
   defaultPriority |-> DefaultPriority,
   logLevel |-> LOG_LEVELS("NONE"), logEventData |-> FALSE,
   maxLogEntries |-> DefaultMaxLogEntries, logHandler |-> FALSE]

\* monitorData: { eventCounts: {}, handlerCounts: {}, timeline: [] }
\* (handlerCounts is never written).
NoMonitorData == [eventCounts |-> EmptyMap, timeline |-> <<>>]

\* createLogEntry(level, message, data): the entry carries the data only when
\* logEventData is set; one shift() when the history has reached
\* maxLogEntries, then the push.
createLogEntry(s, level, message, data) ==
  LET entry == [level |-> level, message |-> message, timestamp |-> s.now,
                data |-> IF s.internalOptions.logEventData THEN data ELSE <<>>]
  IN [s EXCEPT !.logHistory =
                  Append(IF Len(@) >= s.internalOptions.maxLogEntries /\ @ # <<>>
                         THEN Tail(@) ELSE @, entry),
               !.logged = Append(@, [entry |-> entry,
                                     sink |-> s.internalOptions.logHandler])]

\* log(level, message, data): dropped when the level is above the threshold;
\* otherwise the entry is created and passed to the log handler, if any.
log(s, level, message, data) ==
  IF LOG_LEVELS(level) > s.internalOptions.logLevel THEN s
  ELSE createLogEntry(s, level, message, data)

\* An operation's outcome: the state it leaves and the error it raised
\* ("none" when it returned), with the value it returned.
Returned(s, v) == [st |-> s, err |-> "none", ret |-> v]
Raised(s, e) == [st |-> s, err |-> e, ret |-> FALSE]

\* number of handler records in the registry and the pattern index
RECURSIVE SumLens(_, _)
SumLens(f, keys) ==
  IF keys = {} THEN 0
  ELSE LET k == CHOOSE x \in keys : TRUE
       IN Len(f[k]) + SumLens(f, keys \ {k})

PatternHandlers(s) ==
  [i \in 1..Len(s.wildcardEvents) |-> s.wdata[s.wildcardEvents[i].oid].handlers]

TotalHandlers(s) ==
  SumLens(s.events, DOMAIN s.events)
    + SumLens(PatternHandlers(s), 1..Len(s.wildcardEvents))

\* wildcardEvents.has(pattern) / wildcardEvents.get(pattern)
WildHas(s, pattern) == \E i \in 1..Len(s.wildcardEvents) : s.wildcardEvents[i].pattern = pattern
WildOid(s, pattern) ==
  s.wildcardEvents[CHOOSE i \in 1..Len(s.wildcardEvents) :
                     s.wildcardEvents[i].pattern = pattern].oid

\* A fresh object: any identity no live reference holds.
NewOid(s) == CHOOSE i \in 1..(Cardinality(DOMAIN s.wdata) + 1) :
               i \notin DOMAIN s.wdata /\ \A j \in 1..(i - 1) : j \in DOMAIN s.wdata

\* the cache key `${eventName}:match`
MatchSuffix == <<":", "m", "a", "t", "c", "h">>
CacheKey(eventName) == eventName \o MatchSuffix

\* matchCache.has(key) / matchCache.get(key) / matchCache.size
CacheHas(s, key) == \E i \in 1..Len(s.matchCache) : s.matchCache[i].key = key
CacheIndex(s, key) == CHOOSE i \in 1..Len(s.matchCache) : s.matchCache[i].key = key
CacheGet(s, key) == s.matchCache[CacheIndex(s, key)]
CacheKeys(s) == {s.matchCache[i].key : i \in 1..Len(s.matchCache)}

\* the cache lifetime in milliseconds and the cache size limit
CACHE_TTL == 5000
MAX_CACHE_SIZE == 1000
\* emit sweeps the cache when emitCount % 100 === 0
SweepPeriod == 100
\* findMatchingWildcards checks the size when matchCache.size % 50 === 0
SizeCheckPeriod == 50

(***************************************************************************)
(* cleanupExpiredCache(): every entry older than CACHE_TTL is deleted.     *)
(***************************************************************************)
cleanupExpiredCache(s) ==
  [s EXCEPT !.matchCache = SelectSeq(@, LAMBDA e : ~(s.now - e.timestamp > CACHE_TTL))]

(***************************************************************************)
(* checkCacheSize(): above MAX_CACHE_SIZE the first floor(MAX_CACHE_SIZE * *)
(* 0.2) entries of the stable sort by timestamp are deleted.               *)
(***************************************************************************)
\* position of entry i in [...matchCache.entries()].sort(by timestamp), from 0
SortedPosition(cache, i) ==
  Cardinality({j \in 1..Len(cache) :
                 \/ cache[j].timestamp < cache[i].timestamp
                 \/ cache[j].timestamp = cache[i].timestamp /\ j < i})

checkCacheSize(s) ==
  IF Len(s.matchCache) > MAX_CACHE_SIZE
  THEN LET entriesToDelete == (MAX_CACHE_SIZE * 2) \div 10
           cache == s.matchCache
           kept == {i \in 1..Len(cache) : SortedPosition(cache, i) >= entriesToDelete}
           Nth(n) == CHOOSE i \in kept : Cardinality({j \in kept : j < i}) = n - 1
       IN [s EXCEPT !.matchCache = [n \in 1..Cardinality(kept) |-> cache[Nth(n)]]]
  ELSE s

(***************************************************************************)
(* clearRelatedMatchCache(pattern)                                         *)
(***************************************************************************)
\* the test that keeps only the keys below the pattern's prefix
RelatedKeyPrefixOnly(key, pattern) == StartsWith(key, SplitFirst(pattern, "*"))

\* key.startsWith(prefix) || pattern.startsWith(key.split(':')[0])
RelatedKey(key, pattern) ==
  \/ StartsWith(key, SplitFirst(pattern, "*"))
  \/ StartsWith(pattern, SplitFirst(key, ":"))

\* no invalidation at all: the cache keeps every entry
clearRelatedMatchCacheNot(s, pattern) == s

clearRelatedMatchCache(s, pattern) ==
  [s EXCEPT !.matchCache = SelectSeq(@, LAMBDA e : ~RelatedKey(e.key, pattern))]

(***************************************************************************)
(* wildcardToRegExp(pattern): the cached matcher, else the marker limit is *)
(* checked, the matcher compiled and cached.                               *)
(***************************************************************************)
wildcardToRegExp(s, pattern) ==
  IF pattern \in DOMAIN s.regexCache THEN Returned(s, s.regexCache[pattern])
  ELSE IF countWildcards(pattern) > s.internalOptions.maxWildcardsPerPattern
       THEN Raised(s, "Error")
  ELSE LET regex == CompileRegExp(pattern)
       IN Returned([s EXCEPT !.regexCache = MapSet(s.regexCache, pattern, regex)], regex)

(***************************************************************************)
(* addWildcardIndex(pattern, handler, priority)                            *)
(***************************************************************************)
\* priority: Number(priority) || internalOptions.defaultPriority
WildcardPriority(s, priority) ==
  IF priority = 0 THEN s.internalOptions.defaultPriority ELSE priority

addWildcardIndex(s, pattern, handler, priority) ==
  IF ~TrimNonEmpty(pattern) THEN Raised(s, "Error")
  ELSE
    LET rx == IF WildHas(s, pattern) THEN Returned(s, <<>>) ELSE wildcardToRegExp(s, pattern)
    IN IF rx.err # "none" THEN Raised(s, "Error")
       ELSE
         LET oid == IF WildHas(s, pattern) THEN WildOid(s, pattern) ELSE NewOid(s)
             s1 == IF WildHas(s, pattern) THEN s
                   ELSE [rx.st EXCEPT
                           !.wildcardEvents = Append(@, [pattern |-> pattern, oid |-> oid]),
                           !.wdata = MapSet(@, oid,
                                       [regex |-> rx.ret,
                                        prefix |-> SplitFirst(pattern, "*"),
                                        handlers |-> <<>>,
                                        pattern |-> pattern])]
             id == s1.handlerId + 1
             rec == [handler |-> handler, priority |-> WildcardPriority(s, priority), id |-> id]
             s2 == [s1 EXCEPT !.handlerId = id,
                              !.wdata[oid].handlers = SortByPriority(Append(@, rec))]
         IN Returned(clearRelatedMatchCache(s2, pattern), id)

(***************************************************************************)
(* on(event, handler, options)                                             *)
(***************************************************************************)
\* the exact-name branch of on(): the id is `++handlerId` on the local
\* `let handlerId;` declared in on(), which is undefined: NaN.
RegisterExact(s, event, handler, priority) ==
  LET list == IF event \in DOMAIN s.events THEN s.events[event] ELSE <<>>
      rec == [handler |-> handler, priority |-> priority, id |-> NaN]
  IN Returned(log([s EXCEPT !.events = MapSet(@, event, SortByPriority(Append(list, rec)))],
                  "DEBUG", <<"on", event>>, <<priority>>), NaN)

\* `const idToRemove = id || handlerId;` after the if/else: the `const id` of
\* the else block is block-scoped and no other binding `id` exists, so the
\* read of `id` raises ReferenceError; unsubscribe is never built.
IdToRemove(reg) == Raised(reg.st, "ReferenceError")

\* idToRemove as it would be with `id` in scope: the unsubscribe closure over
\* (event, id) is returned
IdToRemoveInScope(reg) == Returned(reg.st, reg.ret)

OnOp(s, event, handler, options) ==
  IF ~IsString(event) THEN Raised(s, "TypeError")
  ELSE IF ~IsFunction(handler) THEN Raised(s, "TypeError")
  ELSE IF ~TrimNonEmpty(event) THEN Raised(s, "Error")
  ELSE
    LET priority == NormalizePriority(s, options)
        reg == IF hasWildcard(event) THEN addWildcardIndex(s, event, handler, priority)
               ELSE RegisterExact(s, event, handler, priority)
    IN IF reg.err # "none" THEN reg
       ELSE LET r == IdToRemove(reg)
            IN IF r.err # "none" THEN r
               ELSE Returned(r.st, [event |-> event, id |-> r.ret])

(***************************************************************************)
(* once(event, handler): a new onceHandler closure is registered with on.  *)
(***************************************************************************)
OnceOp(s, event, handler) ==
  IF ~IsString(event) THEN Raised(s, "TypeError")
  ELSE IF ~IsFunction(handler) THEN Raised(s, "TypeError")
  ELSE LET n == s.closures + 1
           s1 == [s EXCEPT !.closures = n, !.fired = Append(@, 0)]
       IN OnOp(s1, event, OnceFn(handler.h, event, n), NoOptions)

(***************************************************************************)
(* removeWildcardIndex(pattern, handler) and off(event, handler)           *)
(***************************************************************************)
\* which records a removal by `handler` keeps
Keeps(rec, handler) ==
  CASE handler.type = "undefined" -> FALSE
    [] handler.type = "number" -> ~IdEq(rec.id, handler.id)
    [] handler.type = "function" -> rec.handler # handler.fn
    [] OTHER -> TRUE

\* An emit call that is iterating the handlers array of object oid keeps the
\* old array when removeWildcardIndex assigns a new one to the object.
DetachIterators(frames, oid, old) ==
  [i \in 1..Len(frames) |->
     IF frames[i].phase = "wild" /\ frames[i].matches # <<>>
        /\ Head(frames[i].matches) = oid /\ frames[i].itLive
     THEN [frames[i] EXCEPT !.itLive = FALSE, !.itArr = old]
     ELSE frames[i]]

\* the removal that only drops the index key: the object keeps its handlers
\* and the match cache its entries
removeWildcardIndexKeyOnly(s, pattern, handler) ==
  IF ~WildHas(s, pattern) THEN Returned(s, FALSE)
  ELSE Returned([s EXCEPT !.wildcardEvents = SelectSeq(@, LAMBDA e : e.pattern # pattern)],
                TRUE)

removeWildcardIndex(s, pattern, handler) ==
  IF ~WildHas(s, pattern) THEN Returned(s, FALSE)
  ELSE
    LET oid == WildOid(s, pattern)
        old == s.wdata[oid].handlers
        replaced == handler.type \in {"undefined", "number", "function"}
        new == IF replaced THEN SelectSeq(old, LAMBDA r : Keeps(r, handler)) ELSE old
        s1 == IF replaced
              THEN [s EXCEPT !.wdata[oid].handlers = new,
                             !.stack = DetachIterators(@, oid, old)]
              ELSE s
        s2 == IF new = <<>>
              THEN [s1 EXCEPT
                      !.wildcardEvents = SelectSeq(@, LAMBDA e : e.pattern # pattern),
                      !.regexCache = MapDelete(@, pattern)]
              ELSE s1
    IN Returned(clearRelatedMatchCache(s2, pattern), Len(new) < Len(old))

\* off that filters the list of an exact name and keeps the entry when the
\* list has become empty
\* off(): the debug entry of a removal by id or by function, then the one of
\* the list that became empty and was deleted.
OffLogged(s, event, removed, empty) ==
  LET a == IF removed THEN log(s, "DEBUG", <<"off", event>>, <<>>) ELSE s
  IN IF empty THEN log(a, "DEBUG", <<"offEmpty", event>>, <<>>) ELSE a

OffOpKeepEntry(s, event, handler) ==
  IF ~IsString(event) THEN Returned(s, FALSE)
  ELSE IF hasWildcard(event) THEN Returned(removeWildcardIndex(s, event, handler).st, FALSE)
  ELSE IF event \notin DOMAIN s.events THEN Returned(s, FALSE)
  ELSE Returned([s EXCEPT !.events[event] = SelectSeq(@, LAMBDA r : Keeps(r, handler))],
                FALSE)

\* off() has no return statement: it returns undefined on every path
OffOp(s, event, handler) ==
  IF ~IsString(event) THEN Returned(s, FALSE)
  ELSE IF hasWildcard(event) THEN Returned(removeWildcardIndex(s, event, handler).st, FALSE)
  ELSE IF event \notin DOMAIN s.events THEN Returned(s, FALSE)
  ELSE IF handler.type = "undefined"
       THEN Returned(log([s EXCEPT !.events = MapDelete(@, event)],
                         "DEBUG", <<"offAll", event>>, <<>>), FALSE)
  ELSE
    LET new == IF handler.type \in {"number", "function"}
               THEN SelectSeq(s.events[event], LAMBDA r : Keeps(r, handler))
               ELSE s.events[event]
    IN IF new = <<>>
       THEN Returned(OffLogged([s EXCEPT !.events = MapDelete(@, event)], event,
                               Len(new) < Len(s.events[event]), TRUE), FALSE)
       ELSE Returned(OffLogged([s EXCEPT !.events[event] = new], event,
                               Len(new) < Len(s.events[event]), FALSE), FALSE)

\* the handler list of a name or pattern (empty when it has no entry)
ListOf(s, name) ==
  IF hasWildcard(name)
  THEN IF WildHas(s, name) THEN s.wdata[WildOid(s, name)].handlers ELSE <<>>
  ELSE IF name \in DOMAIN s.events THEN s.events[name] ELSE <<>>

\* the closure on() returns: function unsubscribe() { self.off(event, idToRemove) }
unsubscribe(s, cap) == OffOp(s, cap.event, Num(cap.id)).st

(***************************************************************************)
(* setPriority(event, handler, priority)                                   *)
(***************************************************************************)
\* the match test of the search loop, by function identity or by id
PriorityMatch(rec, handler) ==
  \/ handler.type = "function" /\ rec.handler = handler.fn
  \/ handler.type = "number" /\ IdEq(rec.id, handler.id)

\* handlerObj.priority = priority on the first match (then break), re-sort
UpdatePriority(list, handler, priority) ==
  LET hits == {i \in 1..Len(list) : PriorityMatch(list[i], handler)}
  IN IF hits = {} THEN list
     ELSE LET first == CHOOSE i \in hits : \A j \in hits : i <= j
          IN SortByPriority([list EXCEPT ![first].priority = priority])

HasMatch(list, handler) == \E i \in 1..Len(list) : PriorityMatch(list[i], handler)

SetPriorityOp(s, event, handler, priority) ==
  IF ~IsString(event) \/ ~TrimNonEmpty(event)
  THEN Returned(log(s, "ERROR", <<"setPriorityName">>, <<>>), FALSE)
  ELSE IF handler.type = "undefined"
  THEN Returned(log(s, "ERROR", <<"setPriorityHandler">>, <<>>), FALSE)
  ELSE
    LET p == ClampPriority(priority)
    IN IF hasWildcard(event)
       THEN IF WildHas(s, event) /\ HasMatch(s.wdata[WildOid(s, event)].handlers, handler)
            THEN Returned(log([s EXCEPT !.wdata[WildOid(s, event)].handlers =
                                           UpdatePriority(@, handler, p)],
                              "DEBUG", <<"setPriority", event>>, <<>>), TRUE)
            ELSE Returned(log(s, "WARN", <<"setPriorityMissing", event>>, <<>>), FALSE)
       ELSE IF event \in DOMAIN s.events /\ HasMatch(s.events[event], handler)
            THEN Returned(log([s EXCEPT !.events[event] = UpdatePriority(@, handler, p)],
                              "DEBUG", <<"setPriority", event>>, <<>>), TRUE)
            ELSE Returned(log(s, "WARN", <<"setPriorityMissing", event>>, <<>>), FALSE)

(***************************************************************************)
(* findMatchingWildcards(eventName): the cached matches, else a scan of    *)
(* wildcardEvents in insertion order whose result is cached.               *)
(***************************************************************************)
\* the scan without the regex test: what the prefix check alone lets through
ScanAccepts_PrefixOnly(wd, pattern, eventName) ==
  ~(wd.prefix # <<>> /\ ~StartsWith(pattern, <<"*">>) /\ ~StartsWith(eventName, wd.prefix))

\* prefix check, then wildcardData.regex.test(eventName)
ScanAccepts(wd, pattern, eventName) ==
  /\ ~(wd.prefix # <<>> /\ ~StartsWith(pattern, <<"*">>) /\ ~StartsWith(eventName, wd.prefix))
  /\ RegexTest(wd.regex, eventName)

ScanWildcards(s, eventName) ==
  LET hits == SelectSeq(s.wildcardEvents,
                LAMBDA e : ScanAccepts(s.wdata[e.oid], e.pattern, eventName))
  IN [i \in 1..Len(hits) |-> hits[i].oid]

\* the cache hit: cachedResult.timestamp = Date.now(); metrics.cacheHitCount++
CacheHit(s, key) ==
  Returned([s EXCEPT !.matchCache[CacheIndex(s, key)].timestamp = s.now,
                     !.metrics.cacheHitCount = @ + 1],
           CacheGet(s, key).matches)

\* the cache miss: the scan, matchCache.set, and the size check when
\* matchCache.size % 50 === 0
CacheMiss(s, key, eventName) ==
  LET matches == ScanWildcards(s, eventName)
      s1 == [s EXCEPT !.metrics.cacheMissCount = @ + 1,
                      !.matchCache = Append(@, [key |-> key, matches |-> matches,
                                                timestamp |-> s.now])]
      s2 == IF Len(s1.matchCache) % SizeCheckPeriod = 0 THEN checkCacheSize(s1) ELSE s1
  IN Returned(s2, matches)

findMatchingWildcards(s, eventName) ==
  LET key == CacheKey(eventName)
  IN IF CacheHas(s, key) THEN CacheHit(s, key) ELSE CacheMiss(s, key, eventName)

(***************************************************************************)
(* extractWildcardParams(pattern, eventName)                               *)
(***************************************************************************)
extractWildcardParams(s, pattern, eventName) ==
  LET rx == wildcardToRegExp(s, pattern)
  IN IF rx.err # "none" THEN Returned(s, <<>>)
     ELSE LET m == RegexExec(rx.ret, eventName)
          IN Returned(rx.st, IF m.ok THEN m.caps ELSE <<>>)

\* Array.from(wildcardEvents.keys()).find(key => wildcardEvents.get(key) === wildcardData) || ''
PatternOfObject(s, oid) ==
  LET hits == {i \in 1..Len(s.wildcardEvents) : s.wildcardEvents[i].oid = oid}
  IN IF hits = {} THEN <<>>
     ELSE s.wildcardEvents[CHOOSE i \in hits : \A j \in hits : i <= j].pattern

(***************************************************************************)
(* The objects still referenced: by the index, the match cache, or an emit *)
(* call in progress.  The rest is garbage and dropped from wdata.          *)
(***************************************************************************)
SeqRange(q) == {q[i] : i \in 1..Len(q)}

Referenced(s) ==
  {s.wildcardEvents[i].oid : i \in 1..Len(s.wildcardEvents)}
    \cup UNION {SeqRange(s.matchCache[i].matches) : i \in 1..Len(s.matchCache)}
    \cup UNION {SeqRange(s.stack[i].matches) : i \in 1..Len(s.stack)}

Collect(s) == [s EXCEPT !.wdata = [o \in DOMAIN s.wdata \cap Referenced(s) |-> s.wdata[o]]]

Install(s0) ==
  \E s \in {Collect(s0)} :
     /\ events' = s.events
     /\ wildcardEvents' = s.wildcardEvents
     /\ wdata' = s.wdata
     /\ regexCache' = s.regexCache
     /\ matchCache' = s.matchCache
     /\ handlerId' = s.handlerId
     /\ internalOptions' = s.internalOptions
     /\ metrics' = s.metrics
     /\ now' = s.now
     /\ adapter' = s.adapter
     /\ groups' = s.groups
     /\ closures' = s.closures
     /\ stack' = s.stack
     /\ calls' = s.calls
     /\ fired' = s.fired
     /\ passes' = s.passes
     /\ sinceSweep' = s.sinceSweep
     /\ result' = s.result
     /\ logHistory' = s.logHistory
     /\ debugState' = s.debugState
     /\ monitor' = s.monitor
     /\ logged' = s.logged
     /\ snapshot' = s.snapshot
     /\ UNCHANGED probe


(***************************************************************************)
(* onMany(eventNames, handler, {once, includeEventName}) / onceMany        *)
(***************************************************************************)
\* unsubscribeAll() of group g: every collected unsubscribe is called (each
\* is self.off(event, idToRemove)), then the flag is set and the array emptied
RECURSIVE CallUnsubscribes(_, _)
CallUnsubscribes(s, unsubs) ==
  IF unsubs = <<>> THEN s
  ELSE CallUnsubscribes(OffOp(s, Head(unsubs).event, Num(Head(unsubs).id)).st, Tail(unsubs))

\* unsubscribeAll that only sets the flag
unsubscribeAllFlagOnly(s, g) ==
  [s EXCEPT !.groups[g].isUnsubscribed = TRUE]

unsubscribeAll(s, g) ==
  IF s.groups[g].isUnsubscribed THEN s
  ELSE [CallUnsubscribes(s, s.groups[g].unsubs) EXCEPT
          !.groups[g].isUnsubscribed = TRUE,
          !.groups[g].unsubs = <<>>]

\* validEventNames.forEach(eventName => unsubscribeFunctions.push(this.on(eventName, adaptedHandler)))
RECURSIVE SubscribeEach(_, _, _)
\* this.on has run for one name (r): forEach stops when it raised, else the
\* unsubscribe is pushed and the next name follows
PushUnsubscribe(r, g, rest) ==
  IF r.err # "none" THEN r
  ELSE SubscribeEach([r.st EXCEPT !.groups[g].unsubs = Append(@, r.ret)], g, rest)

SubscribeEach(s, g, names) ==
  IF names = <<>> THEN Returned(s, TRUE)
  ELSE PushUnsubscribe(OnOp(s, Head(names), ManyFn(g, Head(names)), NoOptions),
                       g, Tail(names))

ValidName(n) == IsString(n) /\ TrimNonEmpty(n)

\* the try/catch around the forEach (r is what the forEach left): catch
\* (error) { unsubscribeAll(); throw new Error(..) }, else return unsubscribeAll
AfterSubscribeEach(r, g) ==
  IF r.err # "none" THEN Raised(unsubscribeAll(r.st, g), "Error")
  ELSE Returned(r.st, g)

OnManyOp(s, eventNames, handler, isOnce, includeEventName) ==
  IF ~IsFunction(handler) THEN Raised(s, "TypeError")
  ELSE
    LET valid == SelectSeq(eventNames, ValidName)
    IN IF valid = <<>> THEN Returned(s, 0)
       ELSE
         LET g == Len(s.groups) + 1
             s1 == [s EXCEPT !.groups = Append(@,
                      [handler |-> handler.h, isOnce |-> isOnce,
                       includeEventName |-> includeEventName,
                       isUnsubscribed |-> FALSE, unsubs |-> <<>>,
                       names |-> valid, delivered |-> 0])]
         IN AfterSubscribeEach(SubscribeEach(s1, g, valid), g)

(***************************************************************************)
(* Event names, patterns and user handlers the model drives the bus with.  *)
(***************************************************************************)
E1 == <<"u", ".", "l">>
E2 == <<"u", ".", "o">>
P1 == <<"u", ".", "*">>
Payload == <<"x">>

\* What the user function named h does when it is called: hT throws an
\* Error, hN throws null, hOff calls off(P1), hEmit calls emit(E2), hSub calls
\* on(P1, hB) unless hB is subscribed to P1, hSet calls setPriority(P1, hA, 150);
\* every other function just returns.
Body(h) ==
  CASE h = "hT" -> [op |-> "throw", v |-> "Error", ev |-> <<>>]
    [] h = "hN" -> [op |-> "throw", v |-> "null", ev |-> <<>>]
    [] h = "hOff" -> [op |-> "off", v |-> "", ev |-> P1]
    [] h = "hEmit" -> [op |-> "emit", v |-> "", ev |-> E2]
    [] h = "hSub" -> [op |-> "on", v |-> "hB", ev |-> P1]
    [] h = "hSet" -> [op |-> "setPriority", v |-> "hA", ev |-> P1]
    [] OTHER -> [op |-> "return", v |-> "", ev |-> <<>>]

(***************************************************************************)
(* emit(event, ...args), one handler invocation per step.  A frame is one  *)
(* emit call: snap is what is left of the [...handlersArray] snapshot,     *)
(* matches what is left of wildcardMatches (its head is the pattern being  *)
(* iterated), hi the position of the for...of over that pattern's handlers *)
(* array: the object's own array while itLive, else the array itArr it had *)
(* when the loop began.  pending holds the handler whose call is waiting   *)
(* for a nested emit.                                                      *)
(***************************************************************************)
\* metrics.emitCount++; if (metrics.emitCount % 100 === 0) cleanupExpiredCache()
CountEmit(s) ==
  LET s1 == [s EXCEPT !.metrics.emitCount = @ + 1]
  IN IF s1.metrics.emitCount % SweepPeriod = 0
     THEN [cleanupExpiredCache(s1) EXCEPT !.sinceSweep = 0]
     ELSE [s1 EXCEPT !.sinceSweep = Min(@ + 1, SweepPeriod)]

PushCounted(s, event, args) ==
  [s EXCEPT
     !.passes = @ + 1,
     !.stack = Append(@,
        [event |-> event, args |-> args, pass |-> s.passes + 1, phase |-> "exact",
         snap |-> IF event \in DOMAIN s.events THEN s.events[event] ELSE <<>>,
         matches |-> <<>>, itLive |-> FALSE, itArr |-> <<>>, hi |-> 0,
         pending |-> <<>>])]

\* if (internalOptions.logLevel >= LOG_LEVELS.DEBUG): lastEventTime is
\* updated and the event is logged with args and timeSinceLastEvent
EmitDebugLog(s, event, args) ==
  IF s.internalOptions.logLevel >= LOG_LEVELS("DEBUG")
  THEN log([s EXCEPT !.debugState.lastEventTime = s.now], "DEBUG", <<"emit", event>>,
           <<args, IF s.debugState.lastEventTime # 0
                   THEN s.now - s.debugState.lastEventTime ELSE 0>>)
  ELSE s

\* JavaScript values: undefined, NaN, a number, a string
JsUndefined == <<"undefined">>
JsNaN == <<"NaN">>
JsNumber(n) == <<"number", n>>
JsString == <<"string">>

\* The names used here that every plain object inherits from
\* Object.prototype: eventCounts is {}, so eventCounts['valueOf'] is a
\* function before anything was stored under that name.
ValueOf == <<"v", "a", "l", "u", "e", "O", "f">>
ObjectPrototypeNames == {ValueOf}

\* (eventCounts[event] || 0) + 1: one more than the number stored; 1 when
\* nothing is stored or inherited; a string when the value is a function or
\* a string, to which + appends "1"
IncrementedCount(eventCounts, event) ==
  IF event \in DOMAIN eventCounts
  THEN IF eventCounts[event][1] = "number"
       THEN JsNumber(eventCounts[event][2] + 1) ELSE JsString
  ELSE IF event \in ObjectPrototypeNames THEN JsString ELSE JsNumber(1)

\* if (debugState.isMonitoring): eventCounts[event] is incremented and one
\* record is pushed on the timeline, after one shift() when the timeline has
\* reached maxLogEntries.  Both belong to the current monitorData object.
EmitMonitor(s, event, args) ==
  IF ~s.debugState.isMonitoring THEN s
  ELSE [s EXCEPT !.monitor[s.debugState.monitorData] =
          [eventCounts |-> MapSet(@.eventCounts, event,
                             IncrementedCount(@.eventCounts, event)),
           timeline |->
             Append(IF Len(@.timeline) >= s.internalOptions.maxLogEntries
                       /\ @.timeline # <<>>
                    THEN Tail(@.timeline) ELSE @.timeline,
                    [event |-> event,
                     args |-> IF s.internalOptions.logEventData THEN <<args>> ELSE <<>>,
                     timestamp |-> s.now])]]

\* The functions given to setBreakpoint, named by what they do: a condition
\* returns true or false or throws; a callback returns or throws; "none" is
\* a value that is not a function.
Conditions == {"none", "true", "false", "throw"}
Callbacks == {"none", "ret", "throw"}

\* shouldBreak = true; if the condition is a function, its result, and false
\* with an error entry when it throws
BreakpointCondition(s, condition, event) ==
  CASE condition = "throw" ->
         [st |-> log(s, "ERROR", <<"breakpointCondition">>, <<event>>),
          shouldBreak |-> FALSE]
    [] condition = "false" -> [st |-> s, shouldBreak |-> FALSE]
    [] OTHER -> [st |-> s, shouldBreak |-> TRUE]

\* breakpointConfig.callback(event, args) in its try/catch
BreakpointCalled(s, callback, event, args) ==
  [s EXCEPT !.calls = Append(@,
     [pass |-> s.passes + 1, event |-> event,
      src |-> [list |-> "breakpoint", name |-> event],
      fn |-> Fn(callback), id |-> NaN, priority |-> 0, args |-> <<event, args>>])]

BreakpointCallback(s, callback, event, args) ==
  CASE callback = "none" -> s
    [] callback = "throw" ->
         log(BreakpointCalled(s, callback, event, args),
             "ERROR", <<"breakpointCallback">>, <<event>>)
    [] OTHER -> BreakpointCalled(s, callback, event, args)

\* if (shouldBreak): the warning, then the callback if it is a function
BreakpointHit(c, callback, event, args) ==
  IF c.shouldBreak
  THEN BreakpointCallback(log(c.st, "WARN", <<"breakpoint", event>>, <<args>>),
                          callback, event, args)
  ELSE c.st

\* if (debugState.breakpoints.has(event)) ...
EmitBreakpoint(s, event, args) ==
  IF event \in DOMAIN s.debugState.breakpoints
  THEN BreakpointHit(BreakpointCondition(s, s.debugState.breakpoints[event].condition,
                                         event),
                     s.debugState.breakpoints[event].callback, event, args)
  ELSE s

\* emit up to the first handler: the count, the debug record, the
\* monitoring record, the breakpoint, then the snapshot of the exact list
PushFrame(s, event, args) ==
  PushCounted(EmitBreakpoint(EmitMonitor(EmitDebugLog(CountEmit(s), event, args),
                                         event, args), event, args), event, args)

Top(s) == s.stack[Len(s.stack)]

\* the array the for...of of the top frame iterates
IterArray(s) ==
  IF Top(s).itLive THEN s.wdata[Head(Top(s).matches)].handlers ELSE Top(s).itArr

\* the loop moves to the next handler
Advance(s) ==
  LET top == Len(s.stack)
  IN IF s.stack[top].phase = "exact"
     THEN [s EXCEPT !.stack[top].snap = Tail(@)]
     ELSE [s EXCEPT !.stack[top].hi = @ + 1]

Saturate(n) == IF n >= 2 THEN 2 ELSE n + 1

\* The wrapper closures around the user function: what runs after the user
\* function returned ("ret"), threw an object ("throw") or threw null
\* ("throwNull").
AfterUser(s, fn, out) ==
  CASE fn.kind = "once" ->
         \* handler(...args); self.off(event, onceHandler);
         IF out = "ret" THEN [st |-> OffOp(s, fn.ev, Func(fn)).st, out |-> "ret"]
         ELSE [st |-> s, out |-> out]
    [] fn.kind = "many" ->
         \* try { handler(..); if (isOnce) unsubscribeAll() }
         \* catch (error) { console.error(`...${error.message}`...); if (isOnce) unsubscribeAll() }
         IF out = "throwNull" THEN [st |-> s, out |-> "throw"]
         ELSE [st |-> IF s.groups[fn.n].isOnce THEN unsubscribeAll(s, fn.n) ELSE s,
               out |-> "ret"]
    [] OTHER -> [st |-> s, out |-> out]

\* the catch block, had an accepted error entry ended the forEach
LogHandlerErrorAborting(s, out) ==
  IF out = "throw" /\ Top(s).phase = "exact"
     /\ LOG_LEVELS("ERROR") <= s.internalOptions.logLevel
  THEN [log(s, "ERROR", <<"handlerError", Top(s).event>>, <<Top(s).event>>)
          EXCEPT !.stack[Len(s.stack)].snap = <<Head(@)>>]
  ELSE s

\* catch (error) of the exact loop, after console.error: logger.error(...).
\* The catch of the wildcard loop has console.error only.
LogHandlerError(s, out) ==
  IF out = "throw" /\ Top(s).phase = "exact"
  THEN log(s, "ERROR", <<"handlerError", Top(s).event>>, <<Top(s).event>>)
  ELSE s

\* the wrapper closure around a handler that called emit has run
AfterNested(a) == Advance(LogHandlerError(a.st, a.out))

\* The emit call of the top frame ends: it returns, or raises the TypeError
\* of its catch block.  The caller is the public caller or a handler of the
\* enclosing emit, whose call then completes.
PopFrame(s, raised) ==
  LET done == Top(s)
      s1 == [s EXCEPT !.stack = SubSeq(@, 1, Len(@) - 1)]
  IN IF s1.stack = <<>>
     THEN [s1 EXCEPT !.result = [@ EXCEPT !.op = "emit", !.event = done.event,
                                 !.err = IF raised THEN "TypeError" ELSE "none",
                                 !.delta = 0]]
     ELSE LET top == Len(s1.stack)
              rec == s1.stack[top].pending[1]
              s2 == [s1 EXCEPT !.stack[top].pending = <<>>]
          IN AfterNested(AfterUser(s2, rec.handler, IF raised THEN "throw" ELSE "ret"))

\* the catch block with the read of error.message left out
AfterInvokeNoMessage(s, out) == Advance(s)

\* The try/catch around one handler call: catch (error) { console.error(
\* `...${error.message}`, error) ... }.  Reading .message of null raises a
\* TypeError inside the catch block, which leaves the loop and emit.
AfterInvoke(s, out) ==
  IF out = "throwNull" THEN PopFrame(s, TRUE) ELSE Advance(LogHandlerError(s, out))

\* the user function body runs
RunUser(s, h, args) ==
  LET b == Body(h)
  IN CASE b.op = "throw" ->
            [st |-> s, out |-> IF b.v = "null" THEN "throwNull" ELSE "throw"]
       [] b.op = "off" -> [st |-> OffOp(s, b.ev, Undef).st, out |-> "ret"]
       [] b.op = "emit" -> [st |-> PushFrame(s, b.ev, <<>>), out |-> "nested"]
       [] b.op = "on" ->
            \* on() raises out of the user function (which stops subscribing
            \* once the model's ids are used up)
            IF s.handlerId >= MaxId
               \/ \E i \in 1..Len(ListOf(s, b.ev)) : ListOf(s, b.ev)[i].handler = Fn(b.v)
            THEN [st |-> s, out |-> "ret"]
            ELSE LET r == OnOp(s, b.ev, Fn(b.v), NoOptions)
                 IN [st |-> r.st, out |-> IF r.err = "none" THEN "ret" ELSE "throw"]
       [] b.op = "setPriority" ->
            [st |-> SetPriorityOp(s, b.ev, Func(Fn(b.v)), 150).st, out |-> "ret"]
       [] OTHER -> [st |-> s, out |-> "ret"]

\* the wrapper closure has run: the try/catch of the loop takes over
AfterWrapper(a) == AfterInvoke(a.st, a.out)

\* the user function has run (r): it called emit, whose frame is now on top
\* and below which the call waits, or the wrapper closure around it goes on
AfterRun(r, rec) ==
  IF r.out = "nested" THEN [r.st EXCEPT !.stack[Len(r.st.stack) - 1].pending = <<rec>>]
  ELSE AfterWrapper(AfterUser(r.st, rec.handler, r.out))

\* handlerObj.handler(...callArgs) inside the try of the top frame's loop
Invoke(s, rec, callArgs, src) ==
  LET fn == rec.handler
      top == Len(s.stack)
      s1 == [s EXCEPT !.calls = Append(@,
               [pass |-> s.stack[top].pass, event |-> s.stack[top].event,
                src |-> src, fn |-> fn, id |-> rec.id,
                priority |-> rec.priority, args |-> callArgs])]
  IN IF fn.kind = "many" /\ s1.groups[fn.n].isUnsubscribed
     THEN AfterInvoke(s1, "ret")       \* if (isUnsubscribed) return;
     ELSE
       LET h == IF fn.kind = "many" THEN s1.groups[fn.n].handler ELSE fn.h
           userArgs == IF fn.kind = "many" /\ s1.groups[fn.n].includeEventName
                       THEN <<fn.ev>> \o callArgs ELSE callArgs
           s2 == CASE fn.kind = "once" -> [s1 EXCEPT !.fired[fn.n] = Saturate(@)]
                   [] fn.kind = "many" -> [s1 EXCEPT !.groups[fn.n].delivered = Saturate(@)]
                   [] OTHER -> s1
       IN AfterRun(RunUser(s2, h, userArgs), rec)


(***************************************************************************)
(* The public operations as actions.  A public call is made only while no  *)
(* emit is in progress (single-threaded, run to completion); what handlers *)
(* do during an emit is part of the emit steps.                            *)
(***************************************************************************)
Idle == stack = <<>>


\* The observation of a completed public call: what it raised, what it
\* returned (<<>> when it raised or returned undefined), by how much the
\* handler list of `name` grew and, for setOptions, the object it was given.
\* The record of the last emit is dropped.
Outcome(s, r, op, name) ==
  [r.st EXCEPT !.calls = <<>>, !.passes = 0,
               !.result = [op |-> op, event |-> <<>>, err |-> r.err,
                           delta |-> Len(ListOf(r.st, name)) - Len(ListOf(s, name)),
                           ret |-> IF r.err = "none" /\ op # "off" THEN <<r.ret>> ELSE <<>>,
                           note |-> "", arg |-> <<>>]]

On(event, handler, options) ==
  /\ Idle
  /\ TotalHandlers(Cur) < MaxHandlers
  /\ handlerId < MaxId
  /\ Install(Outcome(Cur, OnOp(Cur, event, handler, options), "on", event))

\* on called while fewer than k handlers are registered
OnWithin(k, event, handler, options) ==
  /\ Idle
  /\ TotalHandlers(Cur) < k
  /\ handlerId < MaxId
  /\ Install(Outcome(Cur, OnOp(Cur, event, handler, options), "on", event))

Once(event, handler) ==
  /\ Idle
  /\ TotalHandlers(Cur) < MaxHandlers
  /\ handlerId < MaxId
  /\ closures < MaxClosures
  /\ Install(Outcome(Cur, OnceOp(Cur, event, handler), "once", event))

\* the call removes the last handler of a pattern that a match cache entry
\* refers to
Purges(s, event, after) ==
  /\ hasWildcard(event)
  /\ WildHas(s, event)
  /\ ~WildHas(after, event)
  /\ \E i \in 1..Len(s.matchCache) : WildOid(s, event) \in SeqRange(s.matchCache[i].matches)

Off(event, handler) ==
  /\ Idle
  /\ LET r == OffOp(Cur, event, handler)
     IN Install([Outcome(Cur, r, "off", event) EXCEPT
                   !.result.note = IF Purges(Cur, event, r.st) THEN "purged" ELSE ""])

SetPriority(event, handler, priority) ==
  /\ Idle
  /\ LET r == SetPriorityOp(Cur, event, handler, priority)
     IN Install([r.st EXCEPT !.calls = <<>>, !.passes = 0,
                             !.result = [op |-> "setPriority", event |-> <<>>,
                                         err |-> "none", delta |-> 0,
                                         ret |-> <<r.ret>>, note |-> "", arg |-> <<>>]])

\* The argument of setOptions: an object with some of the keys of the
\* options object (<<>> for an absent key; logHandler: a function).
NoNewOptions == [k \in DOMAIN DefaultOptions |-> <<>>]
WildcardLimitOption(k) == [NoNewOptions EXCEPT !.maxWildcardsPerPattern = <<k>>]
DefaultPriorityOption(d) == [NoNewOptions EXCEPT !.defaultPriority = <<d>>]
LogLevelOption(l) == [NoNewOptions EXCEPT !.logLevel = <<l>>]
MaxLogEntriesOption(n) == [NoNewOptions EXCEPT !.maxLogEntries = <<n>>]

\* setOptions(newOptions): if (typeof newOptions.maxWildcardsPerPattern ===
\* 'number') it is stored; the function has no branch for defaultPriority,
\* which is read only when the bus is created.
\* Each log option given is stored likewise (nothing already kept is
\* trimmed), and the call ends with logger.info.
SetOptionsOp(s, newOptions) ==
  Returned(log([s EXCEPT !.internalOptions =
                   [k \in DOMAIN @ |->
                      IF k # "defaultPriority" /\ newOptions[k] # <<>>
                      THEN newOptions[k][1] ELSE @[k]]],
               "INFO", <<"setOptions">>, <<"options">>), FALSE)

SetOptions(newOptions) ==
  /\ Idle
  /\ LET r == SetOptionsOp(Cur, newOptions)
     IN Install([r.st EXCEPT !.calls = <<>>, !.passes = 0,
                             !.result = [op |-> "setOptions", event |-> <<>>,
                                         err |-> "none", delta |-> 0,
                                         ret |-> <<>>, note |-> "",
                                         arg |-> <<newOptions>>]])

OnceMany(eventNames, handler) ==
  /\ Idle
  /\ TotalHandlers(Cur) < MaxHandlers
  /\ handlerId < MaxId
  /\ Len(groups) < MaxGroups
  /\ Install(Outcome(Cur, OnManyOp(Cur, eventNames, handler, TRUE, TRUE),
                     "onceMany", Head(eventNames)))

\* [...handlersArray].forEach: the next handler of the snapshot is called,
\* with args (unifyParams is off)
InvokeExact(s) ==
  Invoke(s, Head(Top(s).snap), Top(s).args, [list |-> "exact", name |-> Top(s).event])

\* const wildcardMatches = findMatchingWildcards(event); the forEach begins
EnterWildcards(s) ==
  LET fm == findMatchingWildcards(s, Top(s).event)
      top == Len(s.stack)
  IN [fm.st EXCEPT !.stack[top].phase = "wild",
                   !.stack[top].matches = fm.ret,
                   !.stack[top].itLive = TRUE,
                   !.stack[top].hi = 1]

\* for (const handlerObj of wildcardData.handlers): the next handler is
\* called with (event, ...wildcardParams, ...args)
InvokeWildcard(s) ==
  LET f == Top(s)
      oid == Head(f.matches)
      rec == IterArray(s)[f.hi]
      ex == extractWildcardParams(s, PatternOfObject(s, oid), f.event)
  IN Invoke(ex.st, rec, <<f.event>> \o ex.ret \o f.args,
            [list |-> "wild", name |-> s.wdata[oid].pattern])

\* the for...of of one pattern is exhausted: forEach moves to the next match
NextPattern(s) ==
  LET top == Len(s.stack)
  IN [s EXCEPT !.stack[top].matches = Tail(@),
               !.stack[top].itLive = TRUE,
               !.stack[top].itArr = <<>>,
               !.stack[top].hi = 1]

\* emit with the two loops in the other order: the wildcard handlers first,
\* then the exact snapshot
EmitStepWildcardsFirst(s) ==
  LET f == Top(s)
      top == Len(s.stack)
  IN IF f.phase = "exact" /\ f.hi = 0 THEN EnterWildcards(s)
     ELSE IF f.phase = "exact"
          THEN IF f.snap # <<>> THEN InvokeExact(s) ELSE PopFrame(s, FALSE)
     ELSE IF f.matches = <<>> THEN [s EXCEPT !.stack[top].phase = "exact"]
     ELSE IF f.hi <= Len(IterArray(s)) THEN InvokeWildcard(s)
     ELSE NextPattern(s)

\* the next step of the innermost emit call in progress
EmitStep(s) ==
  LET f == Top(s)
  IN IF f.phase = "exact"
     THEN IF f.snap # <<>> THEN InvokeExact(s) ELSE EnterWildcards(s)
     ELSE IF f.matches = <<>> THEN PopFrame(s, FALSE)
     ELSE IF f.hi <= Len(IterArray(s)) THEN InvokeWildcard(s)
     ELSE NextPattern(s)

\* emit runs synchronously until it returns to the public caller
RECURSIVE RunEmit(_)
RunEmit(s) ==
  CHOOSE done \in {IF x.stack = <<>> THEN x ELSE RunEmit(EmitStep(x)) : x \in {s}} : TRUE

\* emit(event, ...args)
EmitOp(s, event, args) ==
  IF ~IsString(event) THEN s
  ELSE RunEmit(PushFrame(s, event, args))

Emit(event, args) ==
  /\ Idle
  /\ Install(EmitOp([Cur EXCEPT !.calls = <<>>, !.passes = 0,
                                !.result = [op |-> "emit", event |-> event,
                                            err |-> "none", delta |-> 0, ret |-> <<>>,
                                            note |-> IF result.note = "purged"
                                                     THEN "afterPurge" ELSE "",
                                            arg |-> <<>>]],
                    event, args))

\* emit called while fewer than k emit calls have been counted
EmitWithin(k, event, args) ==
  /\ metrics.emitCount < k
  /\ Emit(event, args)

(***************************************************************************)
(* has(event), clear(), resetMetrics() and the passing of time.            *)
(***************************************************************************)
HasOp(s, event) ==
  IF ~IsString(event) THEN Returned(s, FALSE)
  ELSE IF event \in DOMAIN s.events THEN Returned(s, TRUE)
  ELSE IF hasWildcard(event) THEN Returned(s, WildHas(s, event))
  ELSE LET fm == findMatchingWildcards(s, event)
       IN Returned(fm.st, Len(fm.ret) > 0)

Has(event) ==
  /\ Idle
  /\ Install(Outcome(Cur, HasOp(Cur, event), "has", event))

\* events.clear(); wildcardEvents.clear(); regexCache.clear(); matchCache.clear()
ClearOp(s) ==
  Returned([s EXCEPT !.events = EmptyMap, !.wildcardEvents = <<>>,
                     !.regexCache = EmptyMap, !.matchCache = <<>>], FALSE)

Clear ==
  /\ Idle
  /\ Install([Outcome(Cur, ClearOp(Cur), "clear", <<>>) EXCEPT !.result.ret = <<>>])

\* Object.keys(metrics).forEach(key => { metrics[key] = 0 })
ResetMetricsOp(s) ==
  Returned([s EXCEPT !.metrics = [k \in DOMAIN s.metrics |-> 0]], FALSE)

ResetMetrics ==
  /\ Idle
  /\ Install([Outcome(Cur, ResetMetricsOp(Cur), "resetMetrics", <<>>) EXCEPT
                !.result.ret = <<>>])

(***************************************************************************)
(* count(event).  The handler lists are arrays, whose .size is undefined:  *)
(* the result is a number, undefined or NaN.                               *)
(***************************************************************************)
\* wildcardMatches.forEach(wildcardData => { count += wildcardData.handlers.size })
\* : adding undefined to a number or to undefined gives NaN
CountMatches(fm, count) ==
  Returned(fm.st, IF Len(fm.ret) > 0 THEN JsNaN ELSE count)

CountOp(s, event) ==
  IF ~IsString(event) THEN Returned(s, JsNumber(0))
  ELSE IF hasWildcard(event)
       THEN Returned(s, IF WildHas(s, event) THEN JsUndefined ELSE JsNumber(0))
  ELSE CountMatches(findMatchingWildcards(s, event),
                    IF event \in DOMAIN s.events THEN JsUndefined ELSE JsNumber(0))

Count(event) ==
  /\ Idle
  /\ Install([Outcome(Cur, CountOp(Cur, event), "count", event) EXCEPT
                !.result.event = event])

\* count called while fewer than k lookups have been counted
CountWithin(k, event) ==
  /\ metrics.cacheHitCount + metrics.cacheMissCount < k
  /\ Count(event)

(***************************************************************************)
(* The debug API: clearLogs, startMonitoring, stopMonitoring,              *)
(* setBreakpoint, removeBreakpoint.                                        *)
(***************************************************************************)
\* logHistory.length = 0; logger.info(...)
ClearLogsOp(s) ==
  Returned(log([s EXCEPT !.logHistory = <<>>], "INFO", <<"clearLogs">>, <<>>), FALSE)

ClearLogs ==
  /\ Idle
  /\ Install([Outcome(Cur, ClearLogsOp(Cur), "clearLogs", <<>>) EXCEPT !.result.ret = <<>>])

\* the monitorData objects reachable from outside: the one a returned
\* snapshot shares its eventCounts and timeline with
Held(s) == {s.snapshot[i].id : i \in 1..Len(s.snapshot)}

\* a new monitorData object (named like the one it replaces unless a
\* snapshot shares that one)
FreshObject(s) == CHOOSE o \in 0..1 : o \notin Held(s)

\* startMonitoring(options): resetData = options.resetData !== false; a new
\* monitorData object replaces the current one if resetData
StartMonitoringOp(s, resetData) ==
  IF resetData
  THEN Returned(log([s EXCEPT !.debugState.isMonitoring = TRUE,
                              !.debugState.monitorData = FreshObject(s),
                              !.monitor = [o \in Held(s) \cup {FreshObject(s)} |->
                                             IF o = FreshObject(s) THEN NoMonitorData
                                             ELSE @[o]]],
                    "INFO", <<"startMonitoring">>, <<>>), FALSE)
  ELSE Returned(log([s EXCEPT !.debugState.isMonitoring = TRUE],
                    "INFO", <<"startMonitoring">>, <<>>), FALSE)

StartMonitoring(resetData) ==
  /\ Idle
  /\ Install([Outcome(Cur, StartMonitoringOp(Cur, resetData), "startMonitoring", <<>>)
                EXCEPT !.result.ret = <<>>])

\* stopMonitoring(): return { ...debugState.monitorData }, a new object whose
\* eventCounts and timeline are those of the current monitorData object
StopMonitoringOp(s) ==
  Returned(log([s EXCEPT !.debugState.isMonitoring = FALSE,
                         !.monitor = [o \in {s.debugState.monitorData} |-> @[o]],
                         !.snapshot = <<[id |-> s.debugState.monitorData,
                                         eventCounts |->
                                           s.monitor[s.debugState.monitorData].eventCounts,
                                         timeline |->
                                           s.monitor[s.debugState.monitorData].timeline]>>],
               "INFO", <<"stopMonitoring">>, <<>>), FALSE)

StopMonitoring ==
  /\ Idle
  /\ Install([Outcome(Cur, StopMonitoringOp(Cur), "stopMonitoring", <<>>)
                EXCEPT !.result.ret = <<>>])

\* setBreakpoint(event, options): refused for a name that is no string or
\* blank; else the entry is set, with null for what is no function
SetBreakpointOp(s, event, condition, callback) ==
  IF ~IsString(event) \/ ~TrimNonEmpty(event)
  THEN Returned(log(s, "ERROR", <<"setBreakpointName">>, <<>>), FALSE)
  ELSE Returned(log([s EXCEPT !.debugState.breakpoints =
                                 MapSet(@, event, [condition |-> condition,
                                                   callback |-> callback])],
                    "INFO", <<"setBreakpoint", event>>, <<>>), TRUE)

SetBreakpoint(event, condition, callback) ==
  /\ Idle
  /\ Install(Outcome(Cur, SetBreakpointOp(Cur, event, condition, callback),
                     "setBreakpoint", <<>>))

\* removeBreakpoint(event): all of them when event is undefined (all), else
\* the one of event, with the result of Map.delete
RemoveBreakpointOp(s, all, event) ==
  IF all
  THEN Returned(log([s EXCEPT !.debugState.breakpoints = EmptyMap],
                    "INFO", <<"removeBreakpoints">>, <<>>), TRUE)
  ELSE IF event \in DOMAIN s.debugState.breakpoints
  THEN Returned(log([s EXCEPT !.debugState.breakpoints = MapDelete(@, event)],
                    "INFO", <<"removeBreakpoint", event>>, <<>>), TRUE)
  ELSE Returned(log(s, "WARN", <<"removeBreakpointMissing", event>>, <<>>), FALSE)

RemoveBreakpoint(all, event) ==
  /\ Idle
  /\ Install(Outcome(Cur, RemoveBreakpointOp(Cur, all, event), "removeBreakpoint", <<>>))

\* has called while fewer than k lookups have been counted
HasWithin(k, event) ==
  /\ metrics.cacheHitCount + metrics.cacheMissCount < k
  /\ Has(event)

\* d milliseconds pass between two public calls
Tick(d) ==
  /\ Idle
  /\ now < MaxTicks * d
  /\ Install([Cur EXCEPT !.now = @ + d])

(***************************************************************************)
(* The lifecycle adapters: useReactEventBus (react.js) and useVueEventBus   *)
(* (vue.js).  Each keeps a Set of the unsubscribe functions the bus        *)
(* returned and calls them all when the component is torn down.            *)
(***************************************************************************)
NoAdapter == [framework |-> "none", subscriptions |-> <<>>, mounted |-> FALSE]

\* try { const unsubscribe = eventBus.on(..); subscriptions.add(unsubscribe) }
\* catch (error) { console.error(..); return () => {} }
AdapterSubscribe(r) ==
  IF r.err # "none" THEN r.st
  ELSE [r.st EXCEPT !.adapter.subscriptions = Append(@, r.ret)]

\* on / once of the adapter.  The React adapter returns early for a name
\* that is empty or not a string and for a handler that is not a function;
\* the Vue adapter leaves that to the bus and catches what it raises.
AdapterOnOp(s, event, handler, isOnce) ==
  IF s.adapter.framework = "react"
     /\ (~IsString(event) \/ event = <<>> \/ ~IsFunction(handler))
  THEN s
  ELSE AdapterSubscribe(IF isOnce THEN OnceOp(s, event, handler)
                        ELSE OnOp(s, event, handler, NoOptions))

\* subscriptions.forEach(unsubscribe => unsubscribe()); subscriptions.clear()
AdapterCleanup(s) ==
  [CallUnsubscribes(s, s.adapter.subscriptions) EXCEPT
     !.adapter.subscriptions = <<>>, !.adapter.mounted = FALSE]

\* the component calls the hook for the first time
Mount(framework) ==
  /\ Idle
  /\ adapter.framework = "none"
  /\ Install([Cur EXCEPT !.adapter = [framework |-> framework, subscriptions |-> <<>>,
                                       mounted |-> TRUE]])

AdapterOn(event, handler) ==
  /\ Idle
  /\ adapter.mounted
  /\ TotalHandlers(Cur) < MaxHandlers
  /\ handlerId < MaxId
  /\ LET s == AdapterOnOp(Cur, event, handler, FALSE)
     IN Install(Outcome(Cur, Returned(s, FALSE), "adapter.on", event))

AdapterOnce(event, handler) ==
  /\ Idle
  /\ adapter.mounted
  /\ TotalHandlers(Cur) < MaxHandlers
  /\ handlerId < MaxId
  /\ closures < MaxClosures
  /\ LET s == AdapterOnOp(Cur, event, handler, TRUE)
     IN Install(Outcome(Cur, Returned(s, FALSE), "adapter.once", event))

\* the component is unmounted (React effect cleanup, Vue onUnmounted)
Unmount ==
  /\ Idle
  /\ adapter.mounted
  /\ Install([Outcome(Cur, Returned(AdapterCleanup(Cur), FALSE), "unmount", <<>>)
                EXCEPT !.result.ret = <<>>])

(***************************************************************************)
(* Specifications.                                                         *)
(***************************************************************************)
NoResult == [op |-> "none", event |-> <<>>, err |-> "none", delta |-> 0,
             ret |-> <<>>, note |-> "", arg |-> <<>>]

InitState ==
  /\ events = EmptyMap
  /\ wildcardEvents = <<>>
  /\ wdata = EmptyMap
  /\ regexCache = EmptyMap
  /\ matchCache = <<>>
  /\ handlerId = 0
  /\ logHistory = <<>>
  /\ debugState = [breakpoints |-> EmptyMap, lastEventTime |-> 0,
                   isMonitoring |-> FALSE, monitorData |-> 0]
  /\ monitor = [o \in {0} |-> NoMonitorData]
  /\ logged = <<>>
  /\ snapshot = <<>>
  /\ metrics = [emitCount |-> 0, cacheHitCount |-> 0, cacheMissCount |-> 0]
  /\ now = 0
  /\ adapter = NoAdapter
  /\ groups = <<>>
  /\ closures = 0
  /\ stack = <<>>
  /\ calls = <<>>
  /\ fired = <<>>
  /\ passes = 0
  /\ sinceSweep = 0
  /\ result = NoResult

\* createEventBus(): every option at its default.
InitEngine == InitState /\ internalOptions = DefaultOptions

Init == InitEngine /\ probe = NoProbe

\* Priority ordering: plain handlers on one exact name and one pattern.
OrderNames == {E1, P1}
OrderHandlers == {"hA", "hB"}
OrderOptions == {NoOptions, NumberOption(150)}
OrderPriorities == {-5, 150}
OrderIds == 1..MaxId

Next ==
  \/ \E n \in OrderNames, h \in OrderHandlers, o \in OrderOptions : On(n, Fn(h), o)
  \/ Once(P1, Fn("hA"))
  \/ \E n \in OrderNames, h \in OrderHandlers : Off(n, Func(Fn(h)))
  \/ \E n \in OrderNames : Off(n, Undef)
  \/ \E n \in OrderNames, p \in OrderPriorities : SetPriority(n, Func(Fn("hA")), p)
  \/ \E i \in OrderIds : SetPriority(P1, Num(i), -5)
  \/ SetPriority(E1, Num(NaN), 150)
  \/ EmitWithin(MaxEmits, E1, Payload)

Spec == Init /\ [][Next]_vars

\* The matcher alone.
InitMatch ==
  /\ InitEngine
  /\ probe \in {[NoProbe EXCEPT !.pattern = p, !.name = n] :
                  p \in ProbePatterns, n \in ProbeNames}

SpecMatch == InitMatch /\ [][ApplyMatcher]_vars

\* Dispatch: handlers that throw, unsubscribe or emit while they run, one-shot
\* handlers and one-shot groups.
DispatchNames == {E1, P1}
DispatchHandlers == {"hA", "hT", "hN", "hOff"}
OneShotHandlers == {"hA", "hT"}
GroupNames == <<E1, E2>>

NextDispatch ==
  \/ \E n \in DispatchNames, h \in DispatchHandlers : On(n, Fn(h), NoOptions)
  \/ On(E1, Fn("hEmit"), NoOptions)
  \/ \E n \in DispatchNames : On(n, Fn("hSub"), NoOptions)
  \/ \E n \in DispatchNames, h \in OneShotHandlers : Once(n, Fn(h))
  \/ \E h \in OneShotHandlers : OnceMany(GroupNames, Fn(h))
  \/ \E e \in {E1, E2} : EmitWithin(MaxEmits, e, Payload)

SpecDispatch == Init /\ [][NextDispatch]_vars

\* Snapshots: handlers that remove a pattern or change a priority while the
\* emit that called them is still iterating.
SnapshotHandlers == {"hA", "hSet", "hOff"}

NextSnapshot ==
  \/ \E n \in DispatchNames, h \in SnapshotHandlers : On(n, Fn(h), NoOptions)
  \/ \E n \in DispatchNames : Off(n, Undef)
  \/ EmitWithin(MaxEmits, E1, Payload)

SpecSnapshot == Init /\ [][NextSnapshot]_vars

\* Registration: names and handlers that are and are not acceptable, and
\* patterns registered under a changing marker limit.
P2 == <<"*", "*">>
Blank == <<" ">>
RegistrationNames == {E1, P1, P2, NotAString, <<>>, Blank}
RegistrationHandlers == {Fn("hA"), NoFn}
MarkerLimits == {1, MaxWildcardsPerPattern}

NextRegistration ==
  \/ \E n \in RegistrationNames, h \in RegistrationHandlers : On(n, h, NoOptions)
  \/ \E n \in RegistrationNames, h \in RegistrationHandlers : Once(n, h)
  \/ \E k \in MarkerLimits : SetOptions(WildcardLimitOption(k))
  \/ \E n \in {E1, P1, P2} : Off(n, Undef)
  \/ EmitWithin(MaxEmits, E1, Payload)

SpecRegistration == Init /\ [][NextRegistration]_vars

\* Lifecycle: a component subscribes its handler hC through an adapter and is
\* torn down.
AdapterFrameworks == {"react", "vue"}
AdapterNames == {E1, P1, <<>>}

NextAdapter ==
  \/ \E f \in AdapterFrameworks : Mount(f)
  \/ \E n \in AdapterNames : AdapterOn(n, Fn("hC"))
  \/ \E n \in AdapterNames : AdapterOnce(n, Fn("hC"))
  \/ Unmount
  \/ EmitWithin(MaxEmits, E1, Payload)

SpecAdapter == Init /\ [][NextAdapter]_vars

\* The match cache: patterns come and go while names are looked up and time
\* passes in steps just above the cache lifetime.
E3 == <<"v", ".", "l">>
P3 == <<"*", ".", "l">>
CacheNames == {E1, E2, E3}
CachePatterns == {P1, P3}

NextCache ==
  \/ \E n \in CachePatterns : On(n, Fn("hA"), NoOptions)
  \/ \E n \in CachePatterns : Off(n, Undef)
  \/ Clear
  \/ \E e \in CacheNames : HasWithin(MaxLookups, e)
  \/ EmitWithin(MaxEmits, E1, Payload)
  \/ Tick(CACHE_TTL + 1)

SpecCache == Init /\ [][NextCache]_vars

\* The cache size: ever new names are looked up on a bus without patterns.
Digits == <<"0", "1", "2", "3", "4", "5", "6", "7", "8", "9">>
RECURSIVE Decimal(_)
Decimal(n) == IF n < 10 THEN <<Digits[n + 1]>> ELSE Append(Decimal(n \div 10), Digits[(n % 10) + 1])
NameNo(n) == <<"e">> \o Decimal(n)

NextCacheFill == HasWithin(MaxFill, NameNo(metrics.cacheMissCount + 1))

SpecCacheFill == Init /\ [][NextCacheFill]_vars

\* Priorities: registrations with and without a priority, given as a number
\* or in an options object, and setOptions calls that name a default.
PriorityNames == {E1, P1}
PriorityValues == {0, 100, 150}
PriorityOptions ==
  {NoOptions} \cup {NumberOption(p) : p \in PriorityValues}
    \cup {ObjectOption(p) : p \in PriorityValues}
PriorityDefaults == {10}

NextPriority ==
  \/ \E n \in PriorityNames, h \in OrderHandlers, o \in PriorityOptions : On(n, Fn(h), o)
  \/ \E d \in PriorityDefaults : SetOptions(DefaultPriorityOption(d))
  \/ \E n \in PriorityNames : Off(n, Undef)

SpecPriority == Init /\ [][NextPriority]_vars

\* The sweep: emit calls with resetMetrics calls in between.
NextSweep ==
  \/ EmitWithin(SweepPeriod, E1, Payload)
  \/ ResetMetrics
  \/ Tick(CACHE_TTL + 1)

SpecSweep == Init /\ [][NextSweep]_vars

\* Logging: createEventBus({logLevel: 1, maxLogEntries: 2, logHandler}), the
\* threshold at ERROR with a log handler and a small limit; handlers that
\* return or throw an Error on a name and a pattern; the threshold and the
\* limit are changed through setOptions.
LogThresholds == {LOG_LEVELS("ERROR"), LOG_LEVELS("DEBUG")}
LogLimits == {1, 2}
LogHandlers == {"hA", "hT"}

InitLogging ==
  /\ InitState
  /\ internalOptions = [DefaultOptions EXCEPT !.logLevel = LOG_LEVELS("ERROR"),
                                              !.maxLogEntries = 2,
                                              !.logHandler = TRUE]
  /\ probe = NoProbe

NextLogging ==
  \/ \E n \in OrderNames, h \in LogHandlers : On(n, Fn(h), NoOptions)
  \/ EmitWithin(MaxEmits, E1, Payload)
  \/ \E m \in LogLimits : SetOptions(MaxLogEntriesOption(m))
  \/ \E l \in LogThresholds : SetOptions(LogLevelOption(l))
  \/ ClearLogs

SpecLogging == InitLogging /\ [][NextLogging]_vars

\* Monitoring: sessions are started (with and without reset) and stopped
\* while events with and without subscribers are emitted, time passes and
\* the limit changes.
MonitoredNames == {E1, E2, ValueOf}

NextMonitoring ==
  \/ On(E1, Fn("hT"), NoOptions)
  \/ \E e \in MonitoredNames : EmitWithin(MaxEmits, e, Payload)
  \/ \E m \in LogLimits : SetOptions(MaxLogEntriesOption(m))
  \/ \E r \in BOOLEAN : StartMonitoring(r)
  \/ StopMonitoring
  \/ Tick(1)

SpecMonitoring == InitLogging /\ [][NextMonitoring]_vars

\* Counting: count is asked for names, a pattern and a non-string while
\* handlers come and go.
CountedNames == {E1, E2, P1, NotAString}

NextCount ==
  \/ \E n \in OrderNames, h \in OrderHandlers : On(n, Fn(h), NoOptions)
  \/ \E n \in OrderNames : Off(n, Undef)
  \/ \E e \in CountedNames : CountWithin(MaxLookups, e)

SpecCount == Init /\ [][NextCount]_vars

\* Instrumented dispatch: registration, removal, priorities and emits on a
\* bus whose log threshold, logEventData and monitoring state change.
\* (createEventBus({logLevel: 1, maxLogEntries: 1, logHandler}), then
\* setOptions({logLevel: 4, logEventData: true}).)
VerboseOption ==
  [NoNewOptions EXCEPT !.logLevel = <<LOG_LEVELS("DEBUG")>>, !.logEventData = <<TRUE>>]

InitInstrumented ==
  /\ InitState
  /\ internalOptions = [DefaultOptions EXCEPT !.logLevel = LOG_LEVELS("ERROR"),
                                              !.maxLogEntries = 1,
                                              !.logHandler = TRUE]
  /\ probe = NoProbe

NextInstrumented ==
  \/ On(E1, Fn("hT"), NoOptions)
  \/ On(P1, Fn("hA"), NoOptions)
  \/ Once(P1, Fn("hA"))
  \/ Off(P1, Undef)
  \/ SetPriority(P1, Func(Fn("hA")), 150)
  \/ EmitWithin(MaxEmits, E1, Payload)
  \/ SetOptions(VerboseOption)
  \/ StartMonitoring(TRUE)

SpecInstrumented == InitInstrumented /\ [][NextInstrumented]_vars

\* Breakpoints: conditions and callbacks that return or throw, on a name
\* whose exact and wildcard handlers return, throw an Error or throw null.
BreakpointHandlers == {"hA", "hT", "hN"}

NextBreakpoint ==
  \/ \E n \in DispatchNames, h \in BreakpointHandlers : On(n, Fn(h), NoOptions)
  \/ \E c \in Conditions, k \in Callbacks : SetBreakpoint(E1, c, k)
  \/ SetBreakpoint(Blank, "none", "ret")
  \/ \E a \in BOOLEAN : RemoveBreakpoint(a, E1)
  \/ EmitWithin(MaxEmits, E1, Payload)

SpecBreakpoint == InitLogging /\ [][NextBreakpoint]_vars

\* Nested emits: hEmit, subscribed to E1, emits E2 while the emit of E1 is
\* running; E2 and the pattern that matches both names have handlers of their
\* own, one of which throws null.
NestedHandlers == MaxHandlers + 1
NestedNames == {E1, E2, P1}

NextNested ==
  \/ OnWithin(NestedHandlers, E1, Fn("hEmit"), NoOptions)
  \/ \E n \in NestedNames : OnWithin(NestedHandlers, n, Fn("hA"), NoOptions)
  \/ OnWithin(NestedHandlers, E2, Fn("hN"), NoOptions)
  \/ EmitWithin(MaxEmits, E1, Payload)

SpecNested == Init /\ [][NextNested]_vars

\* clear(): handlers are registered, everything is cleared, names are looked
\* up and emitted, and handlers are registered again.
ClearedNames == {E1, E2, P1}

NextClear ==
  \/ \E n \in OrderNames, h \in OrderHandlers : On(n, Fn(h), NoOptions)
  \/ Clear
  \/ \E e \in ClearedNames : HasWithin(MaxLookups, e)
  \/ EmitWithin(MaxEmits, E1, Payload)

SpecClear == Init /\ [][NextClear]_vars

(***************************************************************************)
(* The matcher against its contract.                                       *)
(***************************************************************************)
\* name[j..] equals pattern[i..] with every * replaced by a non-empty string
\* that contains no "."
RECURSIVE Instantiates(_, _, _, _)
Instantiates(pattern, i, name, j) ==
  IF i > Len(pattern) THEN j > Len(name)
  ELSE IF pattern[i] = "*"
       THEN \E k \in 1..(Len(name) - j + 1) :
              /\ \A q \in j..(j + k - 1) : name[q] # "."
              /\ Instantiates(pattern, i + 1, name, j + k)
       ELSE j <= Len(name) /\ name[j] = pattern[i]
            /\ Instantiates(pattern, i + 1, name, j + 1)

\* C6: the matcher compiled for a pattern accepts a name if and only if the
\* whole name equals the pattern with every * replaced by a non-empty string
\* without ".".
C6_MatcherAcceptsExactlyInstances ==
  probe.done => (probe.ok <=> Instantiates(probe.pattern, 1, probe.name, 1))

\* u.* has been applied to u.l and accepted it with the capture l
C6_Witness_Accepts ==
  /\ probe.done /\ probe.pattern = P1 /\ probe.name = E1
  /\ probe.ok /\ probe.caps = <<<<"l">>>>

(***************************************************************************)
(* Registration and ordering.                                              *)
(***************************************************************************)
\* C1: on(name, handler) with a valid name and an invocable handler completes
\* without raising and leaves exactly one new record in the entry of name.
C1_OnCompletesWithOneNewRecord ==
  result.op = "on" => result.err = "none" /\ result.delta = 1

\* the calls of one emit pass made from the same handler list
SameList(i, j) ==
  /\ i < j
  /\ calls[i].pass = calls[j].pass
  /\ calls[i].src = calls[j].src

\* C2: of two handlers of the same exact event or the same pattern whose
\* priorities differ, emit invokes the one with the higher priority first.
C2_HigherPriorityInvokedFirst ==
  \A i, j \in 1..Len(calls) :
    SameList(i, j) => calls[i].priority >= calls[j].priority

\* an emit has invoked two handlers of the pattern u.*, priority 100 before
\* priority 0 (a priority only setPriority assigns)
C2_Witness_ReorderedPattern ==
  /\ result.op = "emit"
  /\ \E i, j \in 1..Len(calls) :
       /\ SameList(i, j)
       /\ calls[i].src.list = "wild"
       /\ calls[i].priority = 100 /\ calls[j].priority = 0

IdLess(a, b) == a # NaN /\ b # NaN /\ a < b

Ordered(list) ==
  \A i, j \in 1..Len(list) :
    i < j => \/ list[i].priority > list[j].priority
             \/ list[i].priority = list[j].priority /\ IdLess(list[i].id, list[j].id)

\* C3: after every mutation each PatternIndex handler list (the lists whose
\* ids are numbers) is ordered by priority descending with ties in ascending
\* id order.
C3_PatternListsOrderedTiesById ==
  \A o \in DOMAIN wdata : Ordered(wdata[o].handlers)

\* C4: one emit invokes every exact handler before any wildcard handler,
\* whatever the priorities of the handlers are.
C4_ExactBeforeWildcard ==
  \A i, j \in 1..Len(calls) :
    i < j /\ calls[i].pass = calls[j].pass
      => ~(calls[i].src.list = "wild" /\ calls[j].src.list = "exact")

\* an emit of u.l has invoked an exact handler of priority 50 and then a
\* handler of u.* of priority 100
C4_Witness_LowExactBeforeHighWildcard ==
  /\ result.op = "emit"
  /\ \E i, j \in 1..Len(calls) :
       /\ i < j
       /\ calls[i].src.list = "exact" /\ calls[i].priority = 50
       /\ calls[j].src.list = "wild" /\ calls[j].priority = 100

(***************************************************************************)
(* Dispatch.                                                               *)
(***************************************************************************)
\* the substrings of event bound by the markers of pattern, left to right
Captures(pattern, event) == RegexExec(CompileRegExp(pattern), event).caps

\* the arguments the public caller passed to the emit of a pass (an emit made
\* by a handler passes none)
PassArgs(c) == IF c.pass = 1 THEN Payload ELSE <<>>

\* C5: every wildcard handler that emit(e, args...) invokes for a pattern P
\* receives (e, c1..ck, args...), also when a handler that ran earlier in the
\* same pass subscribed or unsubscribed.
C5_WildcardHandlerReceivesCaptures ==
  \A i \in 1..Len(calls) :
    calls[i].src.list = "wild"
      => calls[i].args = <<calls[i].event>>
                           \o Captures(calls[i].src.name, calls[i].event)
                           \o PassArgs(calls[i])

\* the records of every handler list of the bus
AllRecords ==
  UNION ({{events[n][i] : i \in 1..Len(events[n])} : n \in DOMAIN events}
         \cup {{wdata[o].handlers[i] : i \in 1..Len(wdata[o].handlers)} :
                 o \in DOMAIN wdata})

\* the n-th once() registration is still in a handler list
OnceRegistered(n) ==
  \E r \in AllRecords : r.handler.kind = "once" /\ r.handler.n = n

\* C7: a handler registered with once is invoked by the first matching emit
\* and by no later one, also when it throws: once the first emit has returned
\* no registration of it remains.
C7_OnceFiresOnlyOnFirstEmit ==
  \A n \in 1..Len(fired) :
    /\ fired[n] <= 1
    /\ fired[n] >= 1 => ~OnceRegistered(n)

\* an emit of a name of the group g has returned
EmittedGroupName(g) ==
  /\ result.op = "emit"
  /\ \E k \in 1..Len(groups[g].names) : groups[g].names[k] = result.event

\* C8: for onceMany(names, f), f is delivered exactly once for the whole
\* group: after an emit of a group name has returned f has run once, and no
\* later emit runs it again.
C8_OnceManyDeliversExactlyOnce ==
  \A g \in 1..Len(groups) :
    /\ groups[g].delivered <= 1
    /\ EmittedGroupName(g) => groups[g].delivered = 1

\* C9: once the first emit of a name of a onceMany group has returned, no name
\* of the group holds a registration made by that onceMany call.
C9_OnceManyLeavesNoRegistration ==
  \A g \in 1..Len(groups) :
    EmittedGroupName(g)
      => ~\E r \in AllRecords : r.handler.kind = "many" /\ r.handler.n = g

\* C10: if a handler invoked by emit throws, every other handler of the pass
\* is still invoked and emit returns to its caller without raising.
C10_EmitNeverRaises ==
  result.op = "emit" => result.err = "none"

(***************************************************************************)
(* Unsubscribe capabilities.                                               *)
(***************************************************************************)
\* the list of name holds a record with this id
HoldsId(s, name, id) ==
  \E i \in 1..Len(ListOf(s, name)) : ListOf(s, name)[i].id = id

\* C11: invoking the unsubscribe capability returned by on twice leaves the
\* engine as invoking it once does, and after the first invocation the
\* registration is gone, so that no emit reaches it.
C11_UnsubscribeTwiceAsOnce ==
  [][\A n \in OrderNames, h \in OrderHandlers, o \in OrderOptions :
       On(n, Fn(h), o)
         => /\ result'.ret # <<>>
            /\ LET cap == result'.ret[1]
                   first == unsubscribe(Cur', cap)
               IN /\ unsubscribe(first, cap) = first
                  /\ ~HoldsId(first, n, cap.id)]_vars

\* C12: the unsubscribe capability returned by on(name, h) removes only the
\* record created by that call: the list of name is again what it was before
\* the call, every other record in its place.
C12_UnsubscribeRemovesOnlyItsRecord ==
  [][\A n \in OrderNames, h \in OrderHandlers, o \in OrderOptions :
       On(n, Fn(h), o)
         => /\ result'.ret # <<>>
            /\ LET after == unsubscribe(Cur', result'.ret[1])
               IN /\ ListOf(after, n) = ListOf(Cur, n)
                  /\ \A m \in OrderNames \ {n} : ListOf(after, m) = ListOf(Cur, m)]_vars

(***************************************************************************)
(* The match cache and removals.                                           *)
(***************************************************************************)
\* C13: after the last handler of a pattern P has been removed, the next emit
\* of an event that matched P invokes no handler on behalf of P, even when a
\* match cache entry for the event existed before the removal: every user
\* handler an emit invoked for a pattern is still registered under it.
C13_NoInvocationForRemovedPattern ==
  \A i \in 1..Len(calls) :
    calls[i].src.list = "wild" /\ calls[i].fn.kind = "fn"
      => /\ WildHas(Cur, calls[i].src.name)
         /\ HoldsId(Cur, calls[i].src.name, calls[i].id)

\* an emit ran right after an off that removed the last handler of a pattern
\* to which a match cache entry referred, and invoked no wildcard handler
C13_Witness_EmitAfterPurge ==
  /\ result.op = "emit"
  /\ result.note = "afterPurge"
  /\ \A i \in 1..Len(calls) : calls[i].src.list # "wild"

(***************************************************************************)
(* setPriority.                                                            *)
(***************************************************************************)
\* the record is the one the argument names: the function, or the id it holds
Names(target, rec) ==
  \/ target.type = "function" /\ rec.handler = target.fn
  \/ target.type = "number" /\ rec.id = target.id

HoldsTarget(list, target) == \E i \in 1..Len(list) : Names(target, list[i])

Descending(list) ==
  \A i, j \in 1..Len(list) : i < j => list[i].priority >= list[j].priority

PriorityTargets == {Func(Fn("hA")), Num(NaN)} \cup {Num(i) : i \in OrderIds}

\* C14: setPriority(name, handlerOrId, p) on an existing handler stores
\* min(100, max(0, p)), re-sorts the owning list and returns true; when no
\* handler matches it returns false and leaves every handler list unchanged.
C14_SetPriorityClampsAndReports ==
  [][\A n \in OrderNames, t \in PriorityTargets, p \in OrderPriorities :
       SetPriority(n, t, p)
         => IF HoldsTarget(ListOf(Cur, n), t)
            THEN /\ result'.ret = <<TRUE>>
                 /\ \E i \in 1..Len(ListOf(Cur', n)) :
                      /\ Names(t, ListOf(Cur', n)[i])
                      /\ ListOf(Cur', n)[i].priority = Min(100, Max(0, p))
                 /\ Descending(ListOf(Cur', n))
            ELSE /\ result'.ret = <<FALSE>>
                 /\ events' = events
                 /\ wdata' = wdata]_vars

(***************************************************************************)
(* Mutation during dispatch.                                               *)
(***************************************************************************)
\* a handler record without its priority
Entry(rec) == [handler |-> rec.handler, id |-> rec.id]

\* the handlers registered for event: those of its exact name, then those of
\* every indexed pattern that matches it, in index order
RECURSIVE MatchingFrom(_, _, _)
MatchingFrom(s, event, i) ==
  IF i > Len(s.wildcardEvents) THEN <<>>
  ELSE LET wd == s.wdata[s.wildcardEvents[i].oid]
       IN (IF RegexTest(wd.regex, event) THEN wd.handlers ELSE <<>>)
            \o MatchingFrom(s, event, i + 1)

RegisteredFor(s, event) == ListOf(s, event) \o MatchingFrom(s, event, 1)

EntriesOf(list) == [i \in 1..Len(list) |-> Entry(list[i])]

\* the invocations the top-level emit made itself, as entries
TopCalls(cs) ==
  LET top == SelectSeq(cs, LAMBDA c : c.pass = 1)
  IN [i \in 1..Len(top) |-> [handler |-> top[i].fn, id |-> top[i].id]]

\* C15: a handler subscribed by a handler running inside emit(e) is not
\* invoked during that emit call: every handler the call invokes was
\* registered for e when the call began.
C15_SubscribedDuringEmitNotInvoked ==
  [][\A e \in {E1, E2} :
       Emit(e, Payload)
         => \A i \in 1..Len(TopCalls(calls')) :
              \E k \in 1..Len(RegisteredFor(Cur, e)) :
                TopCalls(calls')[i] = Entry(RegisteredFor(Cur, e)[k])]_vars

\* C16: the handlers invoked by one emit(e) call are exactly the handlers
\* registered for e when the call began, each invoked once and in the order
\* they had then, even when handlers of the pass call off or setPriority on
\* handlers that have not run yet.
C16_EmitInvokesSnapshotInOrder ==
  [][Emit(E1, Payload) /\ result'.err = "none"
       => TopCalls(calls') = EntriesOf(RegisteredFor(Cur, E1))]_vars

(***************************************************************************)
(* Registration errors.                                                    *)
(***************************************************************************)
\* the name is not a string or is empty after trimming, or the handler is not
\* invocable
Unacceptable(n, h) ==
  \/ n = NotAString
  \/ \A i \in 1..Len(n) : n[i] = " "
  \/ h.kind = "none"

\* C17: on and once raise an error when the name is not a string, is empty
\* after trimming, or the handler is not invocable, and then the Registry, the
\* PatternIndex, the MatchCache and the id counter are as before the call.
\* (Written as "the step raised and changed nothing, or it is no refused
\* registration", which is the implication with its conclusion tested first.)
C17_InvalidRegistrationRaisesAndChangesNothing ==
  [][\/ /\ result'.err \in {"TypeError", "Error"}
        /\ UNCHANGED <<events, wildcardEvents, wdata, matchCache, handlerId>>
     \/ ~\E n \in RegistrationNames, h \in RegistrationHandlers :
           Unacceptable(n, h) /\ (On(n, h, NoOptions) \/ Once(n, h))]_vars

\* once has refused a registration while the PatternIndex and the MatchCache
\* hold entries
C17_Witness_RefusedOnPopulatedBus ==
  /\ result.op = "once" /\ result.err = "TypeError"
  /\ wildcardEvents # <<>> /\ matchCache # <<>> /\ handlerId > 0

\* C18: every attempt to register a pattern whose number of markers exceeds
\* the configured maxWildcardsPerPattern raises an error and leaves every
\* handler list unchanged, whether or not the pattern already has handlers.
C18_TooManyMarkersRefused ==
  [][\A n \in {P1, P2} :
       (On(n, Fn("hA"), NoOptions) \/ Once(n, Fn("hA")))
       /\ countWildcards(n) > internalOptions.maxWildcardsPerPattern
         => /\ result'.err = "Error"
            /\ UNCHANGED <<events, wildcardEvents, wdata>>]_vars

(***************************************************************************)
(* onMany / onceMany.                                                      *)
(***************************************************************************)
\* the records of every handler list of the state s
RecordsOf(s) ==
  UNION ({{s.events[n][i] : i \in 1..Len(s.events[n])} : n \in DOMAIN s.events}
         \cup {{s.wdata[o].handlers[i] : i \in 1..Len(s.wdata[o].handlers)} :
                 o \in DOMAIN s.wdata})

\* the records registered by the onMany call of group g
GroupRecords(s, g) ==
  {r \in RecordsOf(s) : r.handler.kind = "many" /\ r.handler.n = g}

\* C19: if the registration of one of the names of an onMany call fails, the
\* error is surfaced to the caller and no registration made by that call
\* remains.
C19_FailedOnManyLeavesNoRegistration ==
  result.op = "onceMany" /\ result.err # "none"
    => GroupRecords(Cur, Len(groups)) = {}

\* C20: the capability returned by onMany/onceMany removes every per-name
\* registration of that call and no other registration, and invoking it a
\* second time changes nothing.
C20_CombinedUnsubscribeRemovesGroup ==
  [][\A h \in OneShotHandlers :
       OnceMany(GroupNames, Fn(h))
         => /\ result'.ret # <<>>
            /\ LET g == result'.ret[1]
                   first == unsubscribeAll(Cur', g)
               IN /\ GroupRecords(first, g) = {}
                  /\ RecordsOf(first) = RecordsOf(Cur)
                  /\ unsubscribeAll(first, g) = first]_vars

(***************************************************************************)
(* Lifecycle adapters.                                                     *)
(***************************************************************************)
\* the names and patterns that have an entry: getEventNames()
getEventNames(s) ==
  DOMAIN s.events \cup {s.wildcardEvents[i].pattern : i \in 1..Len(s.wildcardEvents)}

\* the handler function h is registered under some name or pattern
Subscribed(s, h) ==
  \E n \in getEventNames(s) : \E i \in 1..Len(ListOf(s, n)) : ListOf(s, n)[i].handler.h = h

\* C21: once the host component of an adapter has been torn down, no
\* subscription made through the adapter is left on the bus, no emit invokes
\* the component's handler, and the adapter's set of unsubscribes is empty.
C21_TeardownRemovesSubscriptions ==
  (adapter.framework # "none" /\ ~adapter.mounted) =>
     /\ adapter.subscriptions = <<>>
     /\ ~Subscribed(Cur, "hC")
     /\ \A i \in 1..Len(calls) : calls[i].fn.h # "hC"

(***************************************************************************)
(* Handler ids.                                                            *)
(***************************************************************************)
\* the positions of the handler lists: <<name, index>>
Positions(s) ==
  UNION {{<<n, i>> : i \in 1..Len(ListOf(s, n))} : n \in getEventNames(s)}
At(s, p) == ListOf(s, p[1])[p[2]]

\* C22: every record that on/once created carries an integer id taken from
\* the counter, no two records that coexist carry the same id, and an id that
\* appears in a handler list is above every id given out before (the counter
\* never goes back, so no id is given out twice, also after off or clear).
C22_IdsUniqueAndIncreasing ==
  /\ [](\A p \in Positions(Cur) : At(Cur, p).id \in 1..handlerId)
  /\ [](\A p, q \in Positions(Cur) : p # q => At(Cur, p).id # At(Cur, q).id)
  /\ [][/\ handlerId' >= handlerId
        /\ \A p \in Positions(Cur') :
             (\A q \in Positions(Cur) : At(Cur, q).id # At(Cur', p).id)
               => At(Cur', p).id > handlerId]_vars

(***************************************************************************)
(* The match cache.                                                        *)
(***************************************************************************)
\* C23: a lookup is never answered from a cache entry that was last accessed
\* more than CACHE_TTL ago: such a lookup is a miss, it scans the pattern
\* index again.
C23_ExpiredEntryNotServed ==
  [][\A e \in CacheNames :
       (/\ Has(e)
        /\ e \notin DOMAIN events
        /\ CacheHas(Cur, CacheKey(e))
        /\ now - CacheGet(Cur, CacheKey(e)).timestamp > CACHE_TTL)
       => /\ metrics'.cacheHitCount = metrics.cacheHitCount
          /\ metrics'.cacheMissCount = metrics.cacheMissCount + 1]_vars

\* C24: the match cache never holds more than MAX_CACHE_SIZE entries once an
\* operation has returned.
C24_CacheSizeCapped == Len(matchCache) <= MAX_CACHE_SIZE

\* the scan without cache and without prefix check: the indexed patterns, in
\* index order, that have handlers and whose matcher accepts the name
UncachedScan(s, eventName) ==
  LET hits == SelectSeq(s.wildcardEvents,
                LAMBDA e : /\ s.wdata[e.oid].handlers # <<>>
                           /\ RegexTest(CompileRegExp(e.pattern), eventName))
  IN [i \in 1..Len(hits) |-> hits[i].oid]

\* the event name of a cache key
EventOfKey(key) == SubSeq(key, 1, Len(key) - Len(MatchSuffix))

\* C25: a lookup answers with exactly the patterns that have handlers and
\* accept the name, as a scan without cache and without prefix check does,
\* and no cache entry differs from that scan for its name.
C25_LookupEqualsUncachedScan ==
  /\ \A e \in CacheNames : findMatchingWildcards(Cur, e).ret = UncachedScan(Cur, e)
  /\ \A i \in 1..Len(matchCache) :
       matchCache[i].matches = UncachedScan(Cur, EventOfKey(matchCache[i].key))

\* a lookup answered from the cache found a pattern, after entries of the
\* cache had been invalidated by a registration
C25_Witness_HitAfterInvalidation ==
  /\ result.op = "has"
  /\ result.ret = <<TRUE>>
  /\ metrics.cacheHitCount > 0
  /\ metrics.cacheMissCount > Len(matchCache)

\* C26: no 100 emit calls in a row pass without a sweep of the cache.
C26_SweepEvery100Emits == sinceSweep < SweepPeriod

(***************************************************************************)
(* Stored priorities.                                                      *)
(***************************************************************************)
\* the list without its i-th element
Without(list, i) == SubSeq(list, 1, i - 1) \o SubSeq(list, i + 1, Len(list))

\* list `after` is list `before` with one record of function h and priority
\* p put in
AddedWith(before, after, h, p) ==
  \E i \in 1..Len(after) :
    /\ Without(after, i) = before
    /\ after[i].handler = Fn(h)
    /\ after[i].priority = p

\* C27: on(name, h, p), with p a plain number or {priority: p}, stores the
\* record with priority min(100, max(0, p)), for exact names and patterns
\* alike and for every p, 0 and 100 included; the default priority is stored
\* only when no priority is given.
C27_StoresClampedPriority ==
  [][\A n \in PriorityNames, h \in OrderHandlers, o \in PriorityOptions :
       On(n, Fn(h), o)
         => AddedWith(ListOf(Cur, n), ListOf(Cur', n), h,
                      IF o.form = "none" THEN internalOptions.defaultPriority
                      ELSE ClampPriority(o.p))]_vars

\* C28: a handler registered without a priority right after
\* setOptions({defaultPriority: d}) is stored with priority d, and the
\* handlers registered before keep their priorities.
C28_SetOptionsChangesDefaultPriority ==
  [][\A n \in PriorityNames, h \in OrderHandlers, d \in PriorityDefaults :
       (/\ result.op = "setOptions"
        /\ result.arg = <<DefaultPriorityOption(d)>>
        /\ On(n, Fn(h), NoOptions))
         => AddedWith(ListOf(Cur, n), ListOf(Cur', n), h, d)]_vars

(***************************************************************************)
(* off: its result and the entries it leaves.                              *)
(***************************************************************************)
\* C29: off(name, handlerOrId?) returns true when it removed at least one
\* record and does not return true when it removed none.
C29_OffReportsRemoval ==
  [][\A n \in OrderNames, h \in {Undef} \cup {Func(Fn(f)) : f \in OrderHandlers} :
       Off(n, h) =>
         ((result'.ret = <<TRUE>>) <=> (TotalHandlers(Cur') < TotalHandlers(Cur)))]_vars

\* C30: after every public operation each name and pattern that has an entry
\* has at least one handler: getEventNames() lists no name without handlers.
C30_NoEmptyHandlerList ==
  \A n \in getEventNames(Cur) : ListOf(Cur, n) # <<>>

\* off has removed the last handler of an exact name, whose entry is gone,
\* while a pattern still has handlers
C30_Witness_LastHandlerRemoved ==
  /\ result.op = "off"
  /\ result.delta < 0
  /\ events = EmptyMap
  /\ wildcardEvents # <<>>

(***************************************************************************)
(* Instrumentation: the log, breakpoints and monitoring.                   *)
(***************************************************************************)
\* the user function of a call throws
Throws(c) == c.src.list \in {"exact", "wild"} /\ c.fn.kind = "fn" /\ Body(c.fn.h).op = "throw"

\* the entries of the last call that report a failed handler
HandlerErrors ==
  {i \in 1..Len(logged) : /\ logged[i].entry.level = "ERROR"
                          /\ logged[i].entry.message[1] = "handlerError"
                          /\ logged[i].sink}

\* C31: with the threshold at error or above, an emit logs one error entry,
\* kept in the history and passed to the log handler, for every handler
\* invocation that failed, of an exact handler or a wildcard handler alike.
C31_HandlerErrorsLogged ==
  (/\ result.op = "emit"
   /\ internalOptions.logLevel >= LOG_LEVELS("ERROR")
   /\ internalOptions.logHandler)
    => Cardinality(HandlerErrors) = Cardinality({i \in 1..Len(calls) : Throws(calls[i])})

\* the calls of the breakpoint callback made by the last emit
BreakpointCalls == {i \in 1..Len(calls) : calls[i].src.list = "breakpoint"}

\* the handler invocations of the last emit, as entries
HandlerCalls ==
  LET hs == SelectSeq(calls, LAMBDA c : c.src.list # "breakpoint")
  IN [i \in 1..Len(hs) |-> [handler |-> hs[i].fn, id |-> hs[i].id]]

\* C32: with a breakpoint set for e, emit(e) invokes the breakpoint callback
\* if and only if the condition is absent or returns a positive result, and
\* before any handler of e; when the condition or the callback throws, all
\* exact and wildcard handlers of e still run and emit does not raise.
C32_BreakpointNeverAbortsDispatch ==
  (result.op = "emit" /\ E1 \in DOMAIN debugState.breakpoints)
    => LET bp == debugState.breakpoints[E1]
       IN /\ bp.callback # "none"
               => ((BreakpointCalls # {}) <=> (bp.condition \in {"none", "true"}))
          /\ BreakpointCalls \subseteq {1}
          /\ ("throw" \in {bp.condition, bp.callback})
               => /\ result.err = "none"
                  /\ HandlerCalls = EntriesOf(RegisteredFor(Cur, E1))

\* q is p less some of its oldest entries, followed by new entries
Recent(p, q) ==
  \E k \in 0..Len(p), n \in 0..Len(q) : SubSeq(q, 1, n) = SubSeq(p, k + 1, Len(p))

\* the timeline of the current monitorData object
Timeline == monitor[debugState.monitorData].timeline

\* C33: after any sequence of operations, setOptions calls that change
\* maxLogEntries included, the log history and the monitoring timeline each
\* hold at most maxLogEntries entries, and they hold the most recent entries
\* in order: each step leaves what was kept, less its oldest entries,
\* followed by the new entries.
C33_HistoryAndTimelineBounded ==
  /\ [](/\ Len(logHistory) <= internalOptions.maxLogEntries
        /\ Len(Timeline) <= internalOptions.maxLogEntries)
  /\ [][/\ Recent(logHistory, logHistory')
         /\ debugState'.monitorData = debugState.monitorData
              => Recent(Timeline, Timeline')]_vars

\* C34: the value returned by stopMonitoring() is a frozen snapshot: no later
\* operation changes its eventCounts or its timeline, a later
\* startMonitoring that keeps the data followed by further emits included.
C34_StopMonitoringSnapshotFrozen ==
  \A i \in 1..Len(snapshot) :
    /\ monitor[snapshot[i].id].eventCounts = snapshot[i].eventCounts
    /\ monitor[snapshot[i].id].timeline = snapshot[i].timeline

\* the number counted for e (0 when none is)
Counted(e) ==
  IF e \in DOMAIN monitor[debugState.monitorData].eventCounts
  THEN monitor[debugState.monitorData].eventCounts[e] ELSE JsNumber(0)

\* C35: while a monitoring session is active every emit(e) with a string
\* name increments eventCounts[e] by exactly one and appends exactly one
\* timeline record, whether or not e has subscribers; while no session is
\* active emit leaves eventCounts and the timeline unchanged; startMonitoring
\* with resetData starts the session with empty counts and an empty timeline.
C35_MonitoringCountsEveryEmit ==
  [][/\ \A e \in MonitoredNames :
          EmitWithin(MaxEmits, e, Payload)
            => IF debugState.isMonitoring
               THEN /\ Counted(e)[1] = "number"
                    /\ Counted(e)' = JsNumber(Counted(e)[2] + 1)
                    /\ \A o \in MonitoredNames \ {e} : Counted(o)' = Counted(o)
                    /\ Timeline' # <<>>
                    /\ Timeline'[Len(Timeline')].event = e
                    /\ SubSeq(Timeline', 1, Len(Timeline') - 1)
                         \in {SubSeq(Timeline, k, Len(Timeline)) : k \in {1, 2}}
               ELSE monitor' = monitor
     /\ StartMonitoring(TRUE)
          => /\ debugState'.isMonitoring
             /\ monitor'[debugState'.monitorData] = NoMonitorData]_vars

\* the engine in state s had it been created and left without
\* instrumentation: threshold NONE, no event data, no log handler, nothing
\* logged, no monitoring session
Uninstrumented(s) ==
  [s EXCEPT !.internalOptions =
               [DefaultOptions EXCEPT
                  !.maxWildcardsPerPattern = s.internalOptions.maxWildcardsPerPattern,
                  !.defaultPriority = s.internalOptions.defaultPriority],
            !.logHistory = <<>>,
            !.debugState = [breakpoints |-> EmptyMap, lastEventTime |-> 0,
                            isMonitoring |-> FALSE, monitorData |-> 0],
            !.monitor = [o \in {0} |-> NoMonitorData],
            !.snapshot = <<>>]

\* what dispatch did and left: the Registry, the PatternIndex, the handler
\* invocations in order with their arguments, and the error raised
Dispatched(s) ==
  [events |-> s.events, wildcardEvents |-> s.wildcardEvents, wdata |-> s.wdata,
   calls |-> s.calls, err |-> s.result.err]

\* the step has done to dispatch what it does from the uninstrumented state
\* to which u leads
SameDispatch(u) == Dispatched(Cur') = Dispatched(Collect(u))

\* C37: instrumentation does not influence dispatch.  A call of on, once,
\* off, setPriority or emit invokes the same handlers in the same order with
\* the same arguments, and leaves the same Registry and PatternIndex, as the
\* same call on an engine with the same Registry and PatternIndex but no
\* logging, no log handler and no monitoring; two engines driven by the same
\* sequence of calls therefore agree after every call.
C37_InstrumentationDoesNotInfluenceDispatch ==
  [][/\ \A r \in {<<E1, "hT">>, <<P1, "hA">>} :
          On(r[1], Fn(r[2]), NoOptions)
            => SameDispatch(Outcome(Uninstrumented(Cur),
                                    OnOp(Uninstrumented(Cur), r[1], Fn(r[2]), NoOptions),
                                    "on", r[1]))
     /\ Once(P1, Fn("hA"))
          => SameDispatch(Outcome(Uninstrumented(Cur),
                                  OnceOp(Uninstrumented(Cur), P1, Fn("hA")), "once", P1))
     /\ Off(P1, Undef)
          => SameDispatch(Outcome(Uninstrumented(Cur),
                                  OffOp(Uninstrumented(Cur), P1, Undef), "off", P1))
     /\ SetPriority(P1, Func(Fn("hA")), 150)
          => SameDispatch(Outcome(Uninstrumented(Cur),
                                  SetPriorityOp(Uninstrumented(Cur), P1, Func(Fn("hA")), 150),
                                  "setPriority", P1))
     /\ EmitWithin(MaxEmits, E1, Payload)
          => SameDispatch(EmitOp([Uninstrumented(Cur) EXCEPT !.calls = <<>>, !.passes = 0],
                                 E1, Payload))]_vars

\* an emit on a bus that logs at DEBUG with event data and a log handler
\* while a monitoring session is active has invoked two handlers, of which
\* one threw, and has logged
C37_Witness_InstrumentedEmit ==
  /\ result.op = "emit"
  /\ internalOptions.logLevel = LOG_LEVELS("DEBUG")
  /\ internalOptions.logEventData
  /\ debugState.isMonitoring
  /\ Len(calls) = 2
  /\ \E i \in 1..Len(calls) : Throws(calls[i])
  /\ Len(logged) >= 2
  /\ Timeline # <<>>

(***************************************************************************)
(* count.                                                                  *)
(***************************************************************************)
\* C36: count(name) returns the number of handlers registered: for a pattern
\* the length of its handler list; for an exact name its exact handlers plus
\* the handlers of every pattern that matches it; 0 for a name without
\* subscribers and for a non-string.
C36_CountReturnsNumberOfHandlers ==
  result.op = "count"
    => result.ret = <<JsNumber(IF ~IsString(result.event) THEN 0
                               ELSE IF hasWildcard(result.event)
                                    THEN Len(ListOf(Cur, result.event))
                               ELSE Len(RegisteredFor(Cur, result.event)))>>

(***************************************************************************)
(* Nested emits.                                                           *)
(***************************************************************************)
\* the invocations i+1 .. i+n of the record, as entries
CallsAfter(cs, i, n) ==
  [k \in 1..n |-> [handler |-> cs[i + k].fn, id |-> cs[i + k].id]]

\* C38: an emit issued from inside a handler runs to completion, all
\* handlers of the inner event invoked, before the outer emit invokes its
\* next handler, and the outer pass then continues with the remaining
\* handlers of its own snapshot in their original order: no outer handler is
\* skipped or invoked twice.
C38_NestedEmitCompletesBeforeOuterContinues ==
  [][Emit(E1, Payload)
       => /\ TopCalls(calls') = EntriesOf(RegisteredFor(Cur, E1))
          /\ \A i \in 1..Len(calls') :
               calls'[i].pass = 1 /\ calls'[i].fn = Fn("hEmit")
                 => /\ i + Len(RegisteredFor(Cur, E2)) <= Len(calls')
                    /\ \A k \in 1..Len(RegisteredFor(Cur, E2)) :
                         calls'[i + k].pass > 1
                    /\ CallsAfter(calls', i, Len(RegisteredFor(Cur, E2)))
                         = EntriesOf(RegisteredFor(Cur, E2))
                    /\ i + Len(RegisteredFor(Cur, E2)) < Len(calls')
                         => calls'[i + Len(RegisteredFor(Cur, E2)) + 1].pass = 1]_vars

(***************************************************************************)
(* clear.                                                                  *)
(***************************************************************************)
\* after clear() has returned: has is false for every name and an emit
\* invokes no handler
NothingRegistered(s) ==
  /\ \A e \in ClearedNames : ~HasOp(s, e).ret
  /\ \A e \in {E1, E2} : EmitOp(s, e, Payload).calls = <<>>

\* the capability, issued before a clear(), is a no-op after it, whatever
\* handler was registered after the clear
NoOpAfterClear(s, cap) ==
  \A m \in OrderNames, g \in OrderHandlers :
     unsubscribe(OnOp(ClearOp(s).st, m, Fn(g), NoOptions).st, cap)
       = OnOp(ClearOp(s).st, m, Fn(g), NoOptions).st

\* C39: after clear() no emit invokes a handler that was registered before
\* the clear and has is false for every name; the unsubscribe capability
\* that on issued before the clear is a no-op after it and removes no handler
\* registered after the clear.
C39_ClearRemovesEverythingAndCapabilitiesStayNoOps ==
  [][/\ Clear => NothingRegistered(Cur')
     /\ \A n \in OrderNames, h \in OrderHandlers :
          On(n, Fn(h), NoOptions)
            => /\ result'.ret # <<>>
               /\ NoOpAfterClear(Cur', result'.ret[1])]_vars

====
